---- MODULE Spec2Model ----
(***************************************************************************)
(* The Identify handshake of the CKB network layer                         *)
(* (network/src/protocols/identify/mod.rs): the per-session RemoteInfo    *)
(* map, the four checks applied to a received identify message, the        *)
(* one-second timeout sweep, and the calls the handshake makes on the      *)
(* transport, the peer registry and the peer store.                        *)
(* Also the dispatch adapter CKBHandler with its context                   *)
(* (network/src/protocols/mod.rs), the descriptor table of the support     *)
(* protocols (network/src/protocols/support_protocols.rs) and              *)
(* Flags::contains.                                                        *)
(***************************************************************************)
EXTENDS Integers, Sequences, FiniteSets, TLC

\* ---------------------------------------------------------------- constants
MAX_RETURN_LISTEN_ADDRS == 10
BAN_ON_NOT_SAME_NET == 300
CHECK_TIMEOUT_TOKEN == 100
CHECK_TIMEOUT_INTERVAL == 1
DEFAULT_TIMEOUT == 8
MAX_ADDRS == 10
FullNode == 1
FeelerProtocolId == 3
IdentifyProtocolId == 2

\* ------------------------------------------------------------------- bounds
\* the clock runs from 0 to MaxTime seconds
MaxTime == 9
\* sessions are opened only while the clock is at most MaxConnectAt
MaxConnectAt == 1
\* capability flag values 0..MaxFlag are received
MaxFlag == 3
\* received listen-address lists have 0..MaxShortListens addresses, or
\* MAX_ADDRS .. MAX_ADDRS + MaxExcessListens addresses
MaxShortListens == 3
MaxExcessListens == 1
\* capability flag values of the bits 0..MaxFlagBit are compared
MaxFlagBit == 2
\* the node has up to MAX_RETURN_LISTEN_ADDRS + MaxExcessPublic public addresses
MaxExcessPublic == 1

Sessions == {1, 2}
SessionTypes == {"inbound", "outbound"}
ProtocolIds == {0, 1, 2, 3, 4, 100, 101, 102, 110}
LocalName == "ckb"
LocalClientVersion == "0.100.0"
LocalPeerId == "local"
NetworkNames == {"ckb", "ckb_testnet"}
ClientVersions == {"0.99.0"}
ProtocolVersions == {"2"}

\* --------------------------------------------------------- SupportProtocols
LASTEST_VERSION == "2"

SupportProtocols ==
    {"Ping", "Discovery", "Identify", "Feeler", "DisconnectMessage", "Sync", "RelayV2",
     "Time", "Alert"}

protocol_id(p) ==
    CASE p = "Ping" -> 0
      [] p = "Discovery" -> 1
      [] p = "Identify" -> 2
      [] p = "Feeler" -> 3
      [] p = "DisconnectMessage" -> 4
      [] p = "Sync" -> 100
      [] p = "RelayV2" -> 101
      [] p = "Time" -> 102
      [] p = "Alert" -> 110

SupportProtocols_name(p) ==
    CASE p = "Ping" -> "/ckb/ping"
      [] p = "Discovery" -> "/ckb/discovery"
      [] p = "Identify" -> "/ckb/identify"
      [] p = "Feeler" -> "/ckb/flr"
      [] p = "DisconnectMessage" -> "/ckb/disconnectmsg"
      [] p = "Sync" -> "/ckb/syn"
      [] p = "RelayV2" -> "/ckb/relay"
      [] p = "Time" -> "/ckb/tim"
      [] p = "Alert" -> "/ckb/alt"

support_versions(p) == <<LASTEST_VERSION>>

max_frame_length(p) ==
    CASE p = "Ping" -> 1024
      [] p = "Discovery" -> 512 * 1024
      [] p = "Identify" -> 2 * 1024
      [] p = "Feeler" -> 1024
      [] p = "DisconnectMessage" -> 1024
      [] p = "Sync" -> 2 * 1024 * 1024
      [] p = "RelayV2" -> 4 * 1024 * 1024
      [] p = "Time" -> 1024
      [] p = "Alert" -> 128 * 1024

\* p2p BlockingFlag: the events of a protocol that run as blocking tasks
BlockingFlag_default == {"connected", "disconnected", "received", "notify"}
disable_all(f) == {}
disable_connected(f) == f \ {"connected"}
disable_disconnected(f) == f \ {"disconnected"}
disable_notify(f) == f \ {"notify"}

\* flag that disables every event for every protocol
SupportProtocols_flag_none(p) == disable_all(BlockingFlag_default)

SupportProtocols_flag(p) ==
    IF p \in {"Sync", "RelayV2"}
    THEN disable_notify(disable_disconnected(disable_connected(BlockingFlag_default)))
    ELSE disable_all(BlockingFlag_default)

\* impl From<SupportProtocols> for MetaBuilder: the descriptor handed to the
\* transport
MetaBuilder_from(p) ==
    [id |-> protocol_id(p), support_versions |-> support_versions(p),
     flag |-> SupportProtocols_flag(p), name |-> SupportProtocols_name(p),
     max_frame_length |-> max_frame_length(p)]

\* ---------------------------------------------------------------- Option<T>
None == <<>>
Some(x) == <<x>>
IsSome(o) == o # <<>>
Unwrap(o) == o[1]

\* ------------------------------------------------ HashMap insert and remove
MapInsert(map, k, v) == [x \in (DOMAIN map) \cup {k} |-> IF x = k THEN v ELSE map[x]]
MapRemove(map, k) == [x \in (DOMAIN map) \ {k} |-> map[x]]
EmptyMap == <<>>

\* --------------------------------------------------------------- Multiaddr
\* A multiaddr is /<host>/tcp/<port>[/p2p/<peer id>]; host "dns" stands for
\* an address that has no socket address.
Multiaddr(host, port, peer) == [host |-> host, port |-> port, peer |-> peer]

multiaddr_to_socketaddr(addr) ==
    IF addr.host \in {"global", "private"}
    THEN Some([ip |-> addr.host, port |-> addr.port])
    ELSE None

is_reachable(ip) == ip = "global"

extract_peer_id(addr) == IF addr.peer = "" THEN None ELSE Some(addr.peer)

\* the filter closure without the reachability test
reachable_filter_any(global_only, addr) ==
    IsSome(multiaddr_to_socketaddr(addr))

\* the filter closure of process_listens and connected
reachable_filter(global_only, addr) ==
    LET sock == multiaddr_to_socketaddr(addr)
    IN  IF IsSome(sock)
        THEN (~global_only) \/ is_reachable(Unwrap(sock).ip)
        ELSE FALSE

RECURSIVE FilterSeq(_, _)
FilterSeq(seq, global_only) ==
    IF seq = <<>> THEN <<>>
    ELSE IF reachable_filter(global_only, Head(seq))
         THEN <<Head(seq)>> \o FilterSeq(Tail(seq), global_only)
         ELSE FilterSeq(Tail(seq), global_only)

Take(seq, n) == IF Len(seq) <= n THEN seq ELSE SubSeq(seq, 1, n)

\* the remote address of session s, as the transport reports it
SessionAddress(s) == Multiaddr("global", 8000 + s, "remote")

SessionContext(s, ty) == [id |-> s, ty |-> ty, address |-> SessionAddress(s)]

\* ------------------------------------------------------------------- Flags
RECURSIVE BitAnd(_, _)
BitAnd(a, b) ==
    IF a = 0 \/ b = 0 THEN 0
    ELSE (IF a % 2 = 1 /\ b % 2 = 1 THEN 1 ELSE 0) + 2 * BitAnd(a \div 2, b \div 2)

\* contains as a comparison of the numbers instead of the bits
contains_numeric(self, flags) == self >= flags


contains(self, flags) == BitAnd(self, flags) = flags

\* ---------------------------------------------------------------- Identify
\* The local identify data (IdentifyCallback::new, Identify::new).
LocalIdentify == [name |-> LocalName, flags |-> FullNode, client_version |-> LocalClientVersion]

\* packed::Identify bytes: either bytes that are not an Identify table, or
\* the encoding of (name, flag, client_version).
MalformedIdentify == [wellformed |-> FALSE, name |-> "", flag |-> 0, client_version |-> ""]
IdentifyBytes(name, flag, version) ==
    [wellformed |-> TRUE, name |-> name, flag |-> flag, client_version |-> version]

encode(identify) == IdentifyBytes(identify.name, identify.flags, identify.client_version)

\* a string field whose bytes are not UTF-8
InvalidUtf8 == "<invalid utf-8>"

as_utf8(bytes) == IF bytes = InvalidUtf8 THEN None ELSE Some(bytes)

\* verify without the comparison of the network names
verify_ignores_name(identify, data) ==
    IF ~data.wellformed THEN None
    ELSE IF ~IsSome(as_utf8(data.name)) THEN None
    ELSE IF data.flag = 0 THEN None
    ELSE IF ~IsSome(as_utf8(data.client_version)) THEN None
    ELSE Some([flags |-> data.flag, client_version |-> Unwrap(as_utf8(data.client_version))])

verify(identify, data) ==
    IF ~data.wellformed THEN None
    ELSE IF ~IsSome(as_utf8(data.name)) THEN None
    ELSE IF identify.name # Unwrap(as_utf8(data.name)) THEN None
    ELSE IF data.flag = 0 THEN None
    ELSE IF ~IsSome(as_utf8(data.client_version)) THEN None
    ELSE Some([flags |-> data.flag, client_version |-> Unwrap(as_utf8(data.client_version))])

\* --------------------------------------------------------- IdentifyMessage
Garbage == [decodable |-> FALSE, listen_addrs |-> <<>>,
            observed_addr |-> Multiaddr("dns", 0, ""), identify |-> MalformedIdentify]

IdentifyMessage_encode(listen_addrs, observed_addr, identify) ==
    [decodable |-> TRUE, listen_addrs |-> listen_addrs,
     observed_addr |-> observed_addr, identify |-> identify]

IdentifyMessage_decode(data) ==
    IF data.decodable
    THEN Some([listen_addrs |-> data.listen_addrs,
               observed_addr |-> data.observed_addr,
               identify |-> data.identify])
    ELSE None

\* --------------------------------------------------------------- RemoteInfo
\* a RemoteInfo that starts with has_received set
RemoteInfo_new_received(session, timeout, clock) ==
    [session |-> session, connected_at |-> clock, timeout |-> timeout, has_received |-> TRUE]

RemoteInfo_new(session, timeout, clock) ==
    [session |-> session, connected_at |-> clock, timeout |-> timeout, has_received |-> FALSE]

\* ------------------------------------------------------------- the state
VARIABLES
    now,            \* the clock (seconds), read by Instant::now()
    sessions,       \* transport: session id -> SessionContext of the sessions
                    \* on which the identify protocol is open
    remote_infos,   \* IdentifyProtocol.remote_infos
    global_ip_only, \* IdentifyProtocol.global_ip_only
    peers,          \* peer registry: session id -> Peer
    feelers,        \* peer registry: sessions whose address is marked feeler
    banned,         \* peer store: banned addresses
    panicked,       \* an expect("RemoteInfo must exists") failed
    notify_tokens,  \* transport: the tokens of the registered service notifies
    event,          \* the last event delivered and its inputs
    verdicts,       \* the MisbehaveResult of each step of the last event
    calls,          \* the calls the last event made on its collaborators
    active,         \* NetworkState.is_active()
    handlers,       \* transport: protocol id -> whether its CKBHandler got
                    \* init, and the sessions on which the protocol is open
    returned,       \* what the last operation returned to its caller
    transport_ok    \* transport: the service still takes the requests of
                    \* the protocol's context (a request returns Ok)

vars == <<now, sessions, remote_infos, global_ip_only, peers, feelers, banned,
          panicked, notify_tokens, event, verdicts, calls, active, handlers, returned,
          transport_ok>>

Call(op, s, arg) == [op |-> op, session |-> s, arg |-> arg]


\* The handshake's operations are functions on a machine record m that holds
\* the protocol's state, the collaborators' state and the calls made so far
\* in the current event; ctx is the ProtocolContextMutRef of the event.
Machine ==
    [remote_infos |-> remote_infos, global_ip_only |-> global_ip_only,
     peers |-> peers, feelers |-> feelers, banned |-> banned,
     panicked |-> panicked, verdicts |-> <<>>, calls |-> <<>>, active |-> active,
     transport_ok |-> transport_ok]

Context(session) == [session |-> session, proto_id |-> IdentifyProtocolId]

Ret(m, result) == [m |-> m, result |-> result]

AddCall(m, c) == [m EXCEPT !.calls = Append(@, c)]

AddVerdict(m, v) == [m EXCEPT !.verdicts = Append(@, v)]

\* .expect("RemoteInfo must exists") on a missing entry
Panic(m) == [m EXCEPT !.panicked = TRUE]

\* ------------------------------------------------ transport context calls
\* Every call on the transport's control returns a Result: Err when the
\* service no longer takes requests (transport_ok is false). The request is
\* logged either way.
Ok == [ok |-> TRUE]
Err(e) == [ok |-> FALSE, error |-> e]

SendResult(m) == IF m.transport_ok THEN Ok ELSE Err("BrokenPipe")

context_disconnect(m, id) == Ret(AddCall(m, Call("disconnect", id, <<>>)), SendResult(m))

context_open_protocols(m, id, target) ==
    Ret(AddCall(m, Call("open_protocols", id, target)), SendResult(m))

context_quick_send_message(m, id, data) ==
    Ret(AddCall(m, Call("quick_send_message", id, data)), SendResult(m))

\* let _ = r with the Result of a transport call that panics on Err
Ignore_unwraps(r) == IF r.result.ok THEN r.m ELSE Panic(r.m)

\* let _ = r: the Result of a transport call is dropped
Ignore(r) == r.m

TargetSingle(id) == [kind |-> "Single", ids |-> {id}]

\* TargetProtocol::Filter(f): the protocol ids f accepts
TargetFilterAllButFeeler == [kind |-> "Filter", ids |-> {id \in ProtocolIds : id # FeelerProtocolId}]

\* ------------------------------------------------ NetworkState collaborators
ban_session(m, id, duration, reason) ==
    [AddCall(m, Call("ban_session", id, [duration |-> duration, reason |-> reason]))
        EXCEPT !.banned = @ \cup {SessionAddress(id)}]

is_addr_banned(m, addr) == addr \in m.banned

is_feeler(m, addr) == \E s \in m.feelers : SessionAddress(s) = addr

add_outbound_addr(m, id, addr) == AddCall(m, Call("add_outbound_addr", id, addr))

\* peer_store.add_addr(addr): ok tells whether the store accepted the address
add_addr(m, id, addr, ok) == AddCall(m, Call("add_addr", id, [addr |-> addr, ok |-> ok]))

add_observed_addrs(m, id, addrs) == AddCall(m, Call("add_observed_addrs", id, addrs))

\* ------------------------------------------------------- IdentifyCallback
\* misbehave that bans the session it reports
misbehave_bans(m, session, kind) ==
    Ret(ban_session(AddCall(m, Call("misbehave", session.id, kind)), session.id,
                    BAN_ON_NOT_SAME_NET, "misbehave"),
        "Disconnect")

misbehave(m, session, kind) ==
    Ret(AddCall(m, Call("misbehave", session.id, kind)), "Disconnect")

Misbehavior(kind, count) == [kind |-> kind, count |-> count]

register(m, ctx, version) ==
    LET id == ctx.session.id
        m1 == IF id \in DOMAIN m.peers
              THEN [m EXCEPT !.peers[id].protocols = MapInsert(@, ctx.proto_id, version)]
              ELSE m
    IN  IF ctx.session.ty = "outbound"
        THEN add_outbound_addr(m1, id, ctx.session.address)
        ELSE m1

\* unregister that does not ask the peer store whether the address is banned
unregister_unguarded(m, ctx) ==
    IF ctx.session.ty = "outbound"
    THEN add_outbound_addr(m, ctx.session.id, ctx.session.address)
    ELSE m

unregister(m, ctx) ==
    IF ctx.session.ty = "outbound"
    THEN IF ~is_addr_banned(m, ctx.session.address)
         THEN add_outbound_addr(m, ctx.session.id, ctx.session.address)
         ELSE m
    ELSE m

\* registry_client_version that records the local client version
registry_client_version_local(m, ctx, version) ==
    IF ctx.session.id \in DOMAIN m.peers
    THEN [m EXCEPT !.peers[ctx.session.id].identify_info =
                       Some([client_version |-> LocalClientVersion])]
    ELSE m


registry_client_version(m, ctx, version) ==
    IF ctx.session.id \in DOMAIN m.peers
    THEN [m EXCEPT !.peers[ctx.session.id].identify_info = Some([client_version |-> version])]
    ELSE m

\* received_identify that checks the flags before the feeler mark
received_identify_flags_first(m, ctx, identify) ==
    LET v == verify(LocalIdentify, identify)
    IN  IF ~IsSome(v)
        THEN Ret(ban_session(m, ctx.session.id, BAN_ON_NOT_SAME_NET,
                             "The nodes are not on the same network"),
                 "Disconnect")
        ELSE LET flags == Unwrap(v).flags
                 client_version == Unwrap(v).client_version
             IN  IF ctx.session.ty = "outbound"
                 THEN IF ~contains(flags, LocalIdentify.flags)
                      THEN Ret(m, "Disconnect")
                      ELSE IF is_feeler(m, ctx.session.address)
                      THEN Ret(Ignore(context_open_protocols(m, ctx.session.id,
                                                      TargetSingle(FeelerProtocolId))),
                               "Continue")
                      ELSE Ret(Ignore(context_open_protocols(
                                   registry_client_version(m, ctx, client_version),
                                   ctx.session.id, TargetFilterAllButFeeler)),
                               "Continue")
                 ELSE Ret(registry_client_version(m, ctx, client_version), "Continue")

\* received_identify that applies the checks of outbound sessions to every
\* session
received_identify_any_type(m, ctx, identify) ==
    LET v == verify(LocalIdentify, identify)
    IN  IF ~IsSome(v)
        THEN Ret(ban_session(m, ctx.session.id, BAN_ON_NOT_SAME_NET,
                             "The nodes are not on the same network"),
                 "Disconnect")
        ELSE LET flags == Unwrap(v).flags
                 client_version == Unwrap(v).client_version
             IN  IF is_feeler(m, ctx.session.address)
                 THEN Ret(Ignore(context_open_protocols(m, ctx.session.id,
                                                 TargetSingle(FeelerProtocolId))),
                          "Continue")
                 ELSE IF contains(flags, LocalIdentify.flags)
                 THEN Ret(Ignore(context_open_protocols(
                              registry_client_version(m, ctx, client_version),
                              ctx.session.id, TargetFilterAllButFeeler)),
                          "Continue")
                 ELSE Ret(m, "Disconnect")


received_identify(m, ctx, identify) ==
    LET v == verify(LocalIdentify, identify)
    IN  IF ~IsSome(v)
        THEN Ret(ban_session(m, ctx.session.id, BAN_ON_NOT_SAME_NET,
                             "The nodes are not on the same network"),
                 "Disconnect")
        ELSE LET flags == Unwrap(v).flags
                 client_version == Unwrap(v).client_version
             IN  IF ctx.session.ty = "outbound"
                 THEN IF is_feeler(m, ctx.session.address)
                      THEN Ret(Ignore(context_open_protocols(m, ctx.session.id,
                                                      TargetSingle(FeelerProtocolId))),
                               "Continue")
                      ELSE IF contains(flags, LocalIdentify.flags)
                      THEN Ret(Ignore(context_open_protocols(
                                   registry_client_version(m, ctx, client_version),
                                   ctx.session.id, TargetFilterAllButFeeler)),
                               "Continue")
                      ELSE Ret(m, "Disconnect")
                 ELSE Ret(registry_client_version(m, ctx, client_version), "Continue")

\* network_state.public_addrs(count), cut to MAX_RETURN_LISTEN_ADDRS
listen_addrs(public_addrs) ==
    Take(Take(public_addrs, MAX_RETURN_LISTEN_ADDRS * 2), MAX_RETURN_LISTEN_ADDRS)

\* the loop over the addresses that ends at the first address the peer store
\* refuses
RECURSIVE StoreEach_stops(_, _, _, _)
StoreEach_stops(m, id, addrs, store_fails) ==
    IF addrs = <<>> THEN m
    ELSE IF Head(addrs) \in store_fails THEN add_addr(m, id, Head(addrs), FALSE)
    ELSE StoreEach_stops(add_addr(m, id, Head(addrs), TRUE), id, Tail(addrs), store_fails)

\* for addr in addrs { peer_store.add_addr(addr) }, an Err being logged
RECURSIVE StoreEach(_, _, _, _)
StoreEach(m, id, addrs, store_fails) ==
    IF addrs = <<>> THEN m
    ELSE StoreEach(add_addr(m, id, Head(addrs), Head(addrs) \notin store_fails),
                   id, Tail(addrs), store_fails)

add_remote_listen_addrs(m, session, addrs, store_fails) ==
    LET m1 == IF session.id \in DOMAIN m.peers
              THEN [m EXCEPT !.peers[session.id].listened_addrs = addrs]
              ELSE m
    IN  StoreEach(m1, session.id, addrs, store_fails)

\* the socket addresses of the publicly reachable listen addresses only
RECURSIVE SocketAddrs_reachable(_)
SocketAddrs_reachable(addrs) ==
    IF addrs = <<>> THEN <<>>
    ELSE LET sock == multiaddr_to_socketaddr(Head(addrs))
         IN  (IF IsSome(sock) /\ is_reachable(Unwrap(sock).ip) THEN <<Unwrap(sock)>> ELSE <<>>)
                 \o SocketAddrs_reachable(Tail(addrs))

\* the listen addresses that have a socket address, in order
RECURSIVE SocketAddrs(_)
SocketAddrs(addrs) ==
    IF addrs = <<>> THEN <<>>
    ELSE LET sock == multiaddr_to_socketaddr(Head(addrs))
         IN  (IF IsSome(sock) THEN <<Unwrap(sock)>> ELSE <<>>) \o SocketAddrs(Tail(addrs))

\* addr with its tcp port replaced
WithTcpPort(addr, port) == [addr EXCEPT !.port = port]

\* add_observed_addr without the test of the session type
add_observed_addr_any_type(m, id, addr, ty, public_addrs) ==
    LET sock == multiaddr_to_socketaddr(addr)
    IN  IF ~(IF IsSome(sock) THEN is_reachable(Unwrap(sock).ip) ELSE FALSE)
        THEN Ret(m, "Continue")
        ELSE LET addr1 == IF ~IsSome(extract_peer_id(addr))
                          THEN [addr EXCEPT !.peer = LocalPeerId]
                          ELSE addr
                 socks == SocketAddrs(listen_addrs(public_addrs))
                 observed == [i \in 1..Len(socks) |-> WithTcpPort(addr1, socks[i].port)]
                                 \o <<addr1>>
             IN  Ret(add_observed_addrs(m, id, observed), "Continue")

add_observed_addr(m, id, addr, ty, public_addrs) ==
    IF ty = "inbound" THEN Ret(m, "Continue")
    ELSE LET sock == multiaddr_to_socketaddr(addr)
         IN  IF ~(IF IsSome(sock) THEN is_reachable(Unwrap(sock).ip) ELSE FALSE)
             THEN Ret(m, "Continue")
             ELSE LET addr1 == IF ~IsSome(extract_peer_id(addr))
                               THEN [addr EXCEPT !.peer = LocalPeerId]
                               ELSE addr
                      socks == SocketAddrs(listen_addrs(public_addrs))
                      observed == [i \in 1..Len(socks) |-> WithTcpPort(addr1, socks[i].port)]
                                      \o <<addr1>>
                  IN  Ret(add_observed_addrs(m, id, observed), "Continue")

\* -------------------------------------------------------- IdentifyProtocol

\* check_duplicate that forgets to set has_received
check_duplicate_forgets(m, ctx) ==
    LET id == ctx.session.id
    IN  IF id \notin DOMAIN m.remote_infos THEN Ret(Panic(m), "Panic")
        ELSE LET info == m.remote_infos[id]
             IN  IF info.has_received
                 THEN misbehave(m, info.session, Misbehavior("DuplicateReceived", 0))
                 ELSE Ret(m, "Continue")

check_duplicate(m, ctx) ==
    LET id == ctx.session.id
    IN  IF id \notin DOMAIN m.remote_infos THEN Ret(Panic(m), "Panic")
        ELSE LET info == m.remote_infos[id]
             IN  IF info.has_received
                 THEN misbehave(m, info.session, Misbehavior("DuplicateReceived", 0))
                 ELSE Ret([m EXCEPT !.remote_infos[id].has_received = TRUE], "Continue")

\* process_listens that rejects a list of MAX_ADDRS addresses
process_listens_inclusive(m, ctx, listens, store_fails) ==
    LET id == ctx.session.id
    IN  IF id \notin DOMAIN m.remote_infos THEN Ret(Panic(m), "Panic")
        ELSE LET info == m.remote_infos[id]
             IN  IF Len(listens) >= MAX_ADDRS
                 THEN misbehave(m, info.session, Misbehavior("TooManyAddresses", Len(listens)))
                 ELSE LET reachable_addrs == FilterSeq(listens, m.global_ip_only)
                      IN  Ret(add_remote_listen_addrs(m, ctx.session, reachable_addrs,
                                                      store_fails),
                              "Continue")


process_listens(m, ctx, listens, store_fails) ==
    LET id == ctx.session.id
    IN  IF id \notin DOMAIN m.remote_infos THEN Ret(Panic(m), "Panic")
        ELSE LET info == m.remote_infos[id]
             IN  IF Len(listens) > MAX_ADDRS
                 THEN misbehave(m, info.session, Misbehavior("TooManyAddresses", Len(listens)))
                 ELSE LET reachable_addrs == FilterSeq(listens, m.global_ip_only)
                      IN  Ret(add_remote_listen_addrs(m, ctx.session, reachable_addrs,
                                                      store_fails),
                              "Continue")

process_observed(m, ctx, observed, public_addrs) ==
    LET id == ctx.session.id
    IN  IF id \notin DOMAIN m.remote_infos THEN Ret(Panic(m), "Panic")
        ELSE LET info == m.remote_infos[id]
             IN  IF ~reachable_filter(m.global_ip_only, observed)
                 THEN Ret(m, "Continue")
                 ELSE add_observed_addr(m, id, observed, info.session.ty, public_addrs)

init(m, ok) ==
    AddCall(m, Call("set_service_notify", 0,
                    [interval |-> CHECK_TIMEOUT_INTERVAL, token |-> CHECK_TIMEOUT_TOKEN,
                     ok |-> ok]))

\* connected that creates no RemoteInfo
connected_forgets(m, ctx, version, clock, public_addrs) ==
    LET session == ctx.session
        m1 == register(m, ctx, version)
        listen == Take(FilterSeq(listen_addrs(public_addrs), m1.global_ip_only), MAX_ADDRS)
        data == IdentifyMessage_encode(listen, session.address, encode(LocalIdentify))
    IN  Ignore(context_quick_send_message(m1, session.id, data))

connected(m, ctx, version, clock, public_addrs) ==
    LET session == ctx.session
        m1 == register(m, ctx, version)
        remote_info == RemoteInfo_new(session, DEFAULT_TIMEOUT, clock)
        m2 == [m1 EXCEPT !.remote_infos = MapInsert(@, session.id, remote_info)]
        listen == Take(FilterSeq(listen_addrs(public_addrs), m2.global_ip_only), MAX_ADDRS)
        data == IdentifyMessage_encode(listen, session.address, encode(LocalIdentify))
    IN  Ignore(context_quick_send_message(m2, session.id, data))

\* disconnected that keeps the entry of the session
disconnected_keeps(m, ctx) ==
    LET id == ctx.session.id
    IN  IF id \notin DOMAIN m.remote_infos THEN Panic(m)
        ELSE unregister(m, ctx)

disconnected(m, ctx) ==
    LET id == ctx.session.id
    IN  IF id \notin DOMAIN m.remote_infos THEN Panic(m)
        ELSE unregister([m EXCEPT !.remote_infos = MapRemove(@, id)], ctx)

\* one step of received that requests the disconnect of the session only
\* when no earlier step of the event has requested it
AfterStep_once(r, id) ==
    IF r.result = "Panic" THEN r.m
    ELSE IF r.result = "Disconnect" /\ ~(\E i \in DOMAIN r.m.calls : r.m.calls[i].op = "disconnect")
         THEN Ignore(context_disconnect(AddVerdict(r.m, r.result), id))
         ELSE AddVerdict(r.m, r.result)

\* one step of received whose Disconnect verdict withdraws has_received, a
\* rejected message counting as not received
AfterStep_unmarks(r, id) ==
    IF r.result = "Panic" THEN r.m
    ELSE IF r.result = "Disconnect"
         THEN Ignore(context_disconnect(
                  AddVerdict([r.m EXCEPT !.remote_infos[id].has_received = FALSE], r.result),
                  id))
         ELSE AddVerdict(r.m, r.result)

\* one step of received: the verdict is recorded, and a Disconnect verdict
\* requests the disconnect of the session
AfterStep(r, id) ==
    IF r.result = "Panic" THEN r.m
    ELSE IF r.result = "Disconnect"
         THEN Ignore(context_disconnect(AddVerdict(r.m, r.result), id))
         ELSE AddVerdict(r.m, r.result)

\* received that stops at the first Disconnect
received_short_circuit(m, ctx, data, public_addrs, store_fails) ==
    LET id == ctx.session.id
        decoded == IdentifyMessage_decode(data)
        Stop(x) == x.panicked \/ (x.verdicts # <<>> /\ x.verdicts[Len(x.verdicts)] = "Disconnect")
    IN  IF IsSome(decoded)
        THEN LET message == Unwrap(decoded)
                 m1 == AfterStep(check_duplicate(m, ctx), id)
                 m2 == IF Stop(m1) THEN m1
                       ELSE AfterStep(received_identify(m1, ctx, message.identify), id)
                 m3 == IF Stop(m2) THEN m2
                       ELSE AfterStep(process_listens(m2, ctx, message.listen_addrs,
                                                      store_fails), id)
                 m4 == IF Stop(m3) THEN m3
                       ELSE AfterStep(process_observed(m3, ctx, message.observed_addr,
                                                       public_addrs), id)
             IN  m4
        ELSE IF id \notin DOMAIN m.remote_infos THEN Panic(m)
             ELSE LET info == m.remote_infos[id]
                      r == misbehave(m, info.session, Misbehavior("InvalidData", 0))
                  IN  IF r.result = "Disconnect" THEN Ignore(context_disconnect(r.m, id)) ELSE r.m


received(m, ctx, data, public_addrs, store_fails) ==
    LET id == ctx.session.id
        decoded == IdentifyMessage_decode(data)
    IN  IF IsSome(decoded)
        THEN LET message == Unwrap(decoded)
                 m1 == AfterStep(check_duplicate(m, ctx), id)
                 m2 == IF m1.panicked THEN m1
                       ELSE AfterStep(received_identify(m1, ctx, message.identify), id)
                 m3 == IF m2.panicked THEN m2
                       ELSE AfterStep(process_listens(m2, ctx, message.listen_addrs,
                                                      store_fails), id)
                 m4 == IF m3.panicked THEN m3
                       ELSE AfterStep(process_observed(m3, ctx, message.observed_addr,
                                                       public_addrs), id)
             IN  m4
        ELSE IF id \notin DOMAIN m.remote_infos THEN Panic(m)
             ELSE LET info == m.remote_infos[id]
                      r == misbehave(m, info.session, Misbehavior("InvalidData", 0))
                  IN  IF r.result = "Disconnect" THEN Ignore(context_disconnect(r.m, id)) ELSE r.m


\* the sweep's loop body with a strict comparison of the deadline
notify_one_strict(m, session_id, clock) ==
    LET info == m.remote_infos[session_id]
    IN  IF (~info.has_received) /\ (info.connected_at + info.timeout < clock)
        THEN LET r == misbehave(m, info.session, Misbehavior("Timeout", 0))
             IN  IF r.result = "Disconnect" THEN Ignore(context_disconnect(r.m, session_id)) ELSE r.m
        ELSE m

\* the sweep's loop body that drops the entry it reports
notify_one_removes(m, session_id, clock) ==
    LET info == m.remote_infos[session_id]
    IN  IF (~info.has_received) /\ (info.connected_at + info.timeout <= clock)
        THEN LET r == misbehave(m, info.session, Misbehavior("Timeout", 0))
                 m1 == IF r.result = "Disconnect" THEN Ignore(context_disconnect(r.m, session_id))
                       ELSE r.m
             IN  [m1 EXCEPT !.remote_infos = MapRemove(@, session_id)]
        ELSE m

\* the sweep's loop body without the test of has_received
notify_one_ignores_received(m, session_id, clock) ==
    LET info == m.remote_infos[session_id]
    IN  IF info.connected_at + info.timeout <= clock
        THEN LET r == misbehave(m, info.session, Misbehavior("Timeout", 0))
             IN  IF r.result = "Disconnect" THEN Ignore(context_disconnect(r.m, session_id)) ELSE r.m
        ELSE m

\* the sweep's loop body that reports a session once: the reported entry
\* is marked as having received
notify_one_marks(m, session_id, clock) ==
    LET info == m.remote_infos[session_id]
    IN  IF (~info.has_received) /\ (info.connected_at + info.timeout <= clock)
        THEN LET r == misbehave(m, info.session, Misbehavior("Timeout", 0))
                 m1 == IF r.result = "Disconnect"
                       THEN Ignore(context_disconnect(r.m, session_id))
                       ELSE r.m
             IN  [m1 EXCEPT !.remote_infos[session_id].has_received = TRUE]
        ELSE m

\* the body of the sweep's loop for one entry of remote_infos
notify_one(m, session_id, clock) ==
    LET info == m.remote_infos[session_id]
    IN  IF (~info.has_received) /\ (info.connected_at + info.timeout <= clock)
        THEN LET r == misbehave(m, info.session, Misbehavior("Timeout", 0))
             IN  IF r.result = "Disconnect" THEN Ignore(context_disconnect(r.m, session_id)) ELSE r.m
        ELSE m

\* the sweep; order is the order in which the HashMap yields its entries
RECURSIVE notify(_, _, _)
notify(m, order, clock) ==
    IF order = <<>> THEN m
    ELSE notify(notify_one(m, Head(order), clock), Tail(order), clock)

\* the enumerations of a set without repetition
Orders(S) == {o \in [1..Cardinality(S) -> S] : \A i, j \in DOMAIN o : i # j => o[i] # o[j]}

\* ------------------------------------------------ DefaultCKBProtocolContext
\* the conversion of the ? operator: From<SendErrorKind> for Error
Error_from(e) == [p2p |-> e]

DefaultCKBProtocolContext(proto_id) == [proto_id |-> proto_id]

\* a call on the ServiceControl of the transport; result is what it returns
p2p_control(m, op, id, arg, result) == Ret(AddCall(m, Call(op, id, arg)), result)

\* network::disconnect_with_message; result is what it returns
disconnect_with_message(m, id, message, result) ==
    p2p_control(m, "p2p.disconnect_with_message", id, [message |-> message], result)

\* the ? operator on the result of a transport call, followed by Ok(())
Question(r) == IF r.result.ok THEN Ret(r.m, Ok) ELSE Ret(r.m, Err(Error_from(r.result.error)))

set_notify(m, nc, interval, token, result) ==
    Question(p2p_control(m, "p2p.set_service_notify", 0,
                         [proto_id |-> nc.proto_id, interval |-> interval, token |-> token],
                         result))

remove_notify(m, nc, token, result) ==
    Question(p2p_control(m, "p2p.remove_service_notify", 0,
                         [proto_id |-> nc.proto_id, token |-> token], result))

quick_send_message(m, nc, proto_id, peer_index, data, result) ==
    Question(p2p_control(m, "p2p.quick_send_message_to", peer_index,
                         [proto_id |-> proto_id, data |-> data], result))

quick_send_message_to(m, nc, peer_index, data, result) ==
    Question(p2p_control(m, "p2p.quick_send_message_to", peer_index,
                         [proto_id |-> nc.proto_id, data |-> data], result))

quick_filter_broadcast(m, nc, target, data, result) ==
    Question(p2p_control(m, "p2p.quick_filter_broadcast", 0,
                         [target |-> target, proto_id |-> nc.proto_id, data |-> data],
                         result))

future_task(m, nc, task, blocking, result) ==
    LET task1 == IF blocking THEN [blocking_future_task |-> task] ELSE task
    IN  Question(p2p_control(m, "p2p.future_task", 0, [task |-> task1], result))

\* send_message that drops the result of the transport call
send_message_swallows(m, nc, proto_id, peer_index, data, result) ==
    Ret(p2p_control(m, "p2p.send_message_to", peer_index,
                    [proto_id |-> proto_id, data |-> data], result).m,
        Ok)

send_message(m, nc, proto_id, peer_index, data, result) ==
    Question(p2p_control(m, "p2p.send_message_to", peer_index,
                         [proto_id |-> proto_id, data |-> data], result))

send_message_to(m, nc, peer_index, data, result) ==
    Question(p2p_control(m, "p2p.send_message_to", peer_index,
                         [proto_id |-> nc.proto_id, data |-> data], result))

filter_broadcast(m, nc, target, data, result) ==
    Question(p2p_control(m, "p2p.filter_broadcast", 0,
                         [target |-> target, proto_id |-> nc.proto_id, data |-> data],
                         result))

\* connected_peers that lists every peer of the registry
connected_peers_all(m, nc) == Ret(m, DOMAIN m.peers)

\* the peers of the registry whose protocols hold the protocol of the
\* context; the Vec is read as the set of its elements
connected_peers(m, nc) ==
    Ret(m, {peer_index \in DOMAIN m.peers : nc.proto_id \in DOMAIN m.peers[peer_index].protocols})

disconnect(m, nc, peer_index, message, result) ==
    Question(disconnect_with_message(m, peer_index, message, result))

\* ---------------------------------------------------------------- CKBHandler
\* a call of the adapter on the handler it wraps
Forward(m, op, id, arg) == AddCall(m, Call(op, id, arg))

CKBHandler_init(m, proto_id) ==
    Forward(m, "handler.init", 0, [proto_id |-> proto_id])

\* connected that leaves the registry alone while the network is inactive
CKBHandler_connected_gated(m, proto_id, id, version) ==
    IF ~m.active THEN m
    ELSE Forward(IF id \in DOMAIN m.peers
                 THEN [m EXCEPT !.peers[id].protocols = MapInsert(@, proto_id, version)]
                 ELSE m,
                 "handler.connected", id, [proto_id |-> proto_id, version |-> version])

CKBHandler_connected(m, proto_id, id, version) ==
    LET m1 == IF id \in DOMAIN m.peers
              THEN [m EXCEPT !.peers[id].protocols = MapInsert(@, proto_id, version)]
              ELSE m
    IN  IF ~m1.active THEN m1
        ELSE Forward(m1, "handler.connected", id,
                     [proto_id |-> proto_id, version |-> version])

CKBHandler_disconnected(m, proto_id, id) ==
    LET m1 == IF id \in DOMAIN m.peers
              THEN [m EXCEPT !.peers[id].protocols = MapRemove(@, proto_id)]
              ELSE m
    IN  IF ~m1.active THEN m1
        ELSE Forward(m1, "handler.disconnected", id, [proto_id |-> proto_id])

\* received that forwards whatever the active flag says
CKBHandler_received_ungated(m, proto_id, id, data) ==
    Forward(m, "handler.received", id, [proto_id |-> proto_id, data |-> data])

CKBHandler_received(m, proto_id, id, data) ==
    IF ~m.active THEN m
    ELSE Forward(m, "handler.received", id, [proto_id |-> proto_id, data |-> data])

CKBHandler_notify(m, proto_id, token) ==
    IF ~m.active THEN m
    ELSE Forward(m, "handler.notify", 0, [proto_id |-> proto_id, token |-> token])

\* polled is what the wrapped handler's poll returns
CKBHandler_poll(m, proto_id, polled) ==
    Ret(Forward(m, "handler.poll", 0, [proto_id |-> proto_id]), polled)

\* ------------------------------------------------------------- the inputs
ListenPattern ==
    <<Multiaddr("global", 8115, "a"), Multiaddr("private", 8115, "b"),
      Multiaddr("global", 8116, "c"), Multiaddr("dns", 0, "d")>>

\* the listen-address list of n addresses
ListenList(n) == [i \in 1..n |-> ListenPattern[((i - 1) % Len(ListenPattern)) + 1]]

ListenLens == (0..MaxShortListens) \cup (MAX_ADDRS..(MAX_ADDRS + MaxExcessListens))

ObservedAddrs ==
    {Multiaddr("global", 9000, ""), Multiaddr("private", 9000, ""),
     Multiaddr("global", 9001, "seen")}

IdentifyDatas ==
    {MalformedIdentify, IdentifyBytes(InvalidUtf8, FullNode, "0.99.0"),
     IdentifyBytes(LocalName, FullNode, InvalidUtf8)} \cup
    {IdentifyBytes(n, f, v) : n \in NetworkNames, f \in 0..MaxFlag, v \in ClientVersions}

\* an identify payload of a full node of the local network
ValidIdentify == IdentifyBytes(LocalName, FullNode, "0.99.0")

\* the payloads of the handshake specification: every identify data, with a
\* list of listen addresses that is accepted or one that is too long
HandshakePayloads ==
    {Garbage} \cup
    {IdentifyMessage_encode(ListenList(n), Multiaddr("global", 9000, ""), i) :
        n \in {MaxShortListens, MAX_ADDRS + MaxExcessListens}, i \in IdentifyDatas}

\* the payloads of the address specification: every list of listen addresses
\* and every observed address, with a valid or a rejected identify data
AddressPayloads ==
    {IdentifyMessage_encode(ListenList(n), o, i) :
        n \in ListenLens, o \in ObservedAddrs,
        i \in {ValidIdentify, IdentifyBytes("ckb_testnet", FullNode, "0.99.0")}}

\* the payloads of the sweep specification
SweepPayloads ==
    {Garbage, IdentifyMessage_encode(<<>>, Multiaddr("private", 9000, ""), ValidIdentify)}

\* the payloads of the transport specification: a message without offence
\* and one of another network with 11 listen addresses
TransportPayloads ==
    SweepPayloads \cup
    {IdentifyMessage_encode(ListenList(MAX_ADDRS + 1), Multiaddr("private", 9000, ""),
                            IdentifyBytes("ckb_testnet", FullNode, "0.99.0"))}

\* what network_state.public_addrs returns
PublicAddrLists ==
    {<<>>,
     <<Multiaddr("global", 8114, "local"), Multiaddr("private", 8115, "local"),
       Multiaddr("dns", 0, "local")>>,
     [i \in 1..(MAX_RETURN_LISTEN_ADDRS + MaxExcessPublic) |->
         Multiaddr("global", 8200 + i, "local")]}

\* the addresses the peer store refuses
StoreFailSets == {{}, {ListenPattern[1]}}

\* an event record: its kind, its session, the bytes received and what
\* network_state.public_addrs returns while it is handled
Event(kind, s, data, public_addrs) ==
    [kind |-> kind, session |-> s, data |-> data, public_addrs |-> public_addrs]

NoEvent(kind) == Event(kind, 0, Garbage, <<>>)

\* ------------------------------------------------------------ the actions
Init ==
    /\ now = 0
    /\ sessions = EmptyMap
    /\ remote_infos = EmptyMap
    /\ global_ip_only = TRUE
    /\ peers = EmptyMap
    /\ feelers = {}
    /\ banned = {}
    /\ panicked = FALSE
    /\ notify_tokens = {}
    /\ event = NoEvent("new")
    /\ verdicts = <<>>
    /\ calls = <<>>
    /\ active = TRUE
    /\ handlers = EmptyMap
    /\ returned = <<>>
    /\ transport_ok = TRUE

\* the machine after an event becomes the state
Commit(m) ==
    /\ remote_infos' = m.remote_infos
    /\ peers' = m.peers
    /\ banned' = m.banned
    /\ panicked' = m.panicked
    /\ verdicts' = m.verdicts
    /\ calls' = m.calls
    /\ UNCHANGED <<global_ip_only, feelers, active, handlers, returned, transport_ok>>

Running == event.kind # "new" /\ ~panicked

\* ServiceProtocol::init, delivered once when the service starts
ProtocolInit(ok) ==
    /\ event.kind = "new"
    /\ Commit(init(Machine, ok))
    /\ notify_tokens' = IF ok THEN {CHECK_TIMEOUT_TOKEN} ELSE {}
    /\ event' = NoEvent("init")
    /\ UNCHANGED <<now, sessions>>

\* the transport opens the identify protocol on session s
Connected(s, ty, version, public_addrs) ==
    /\ Running
    /\ s \notin DOMAIN sessions
    /\ now <= MaxConnectAt
    /\ sessions' = MapInsert(sessions, s, SessionContext(s, ty))
    /\ Commit(connected(Machine, Context(SessionContext(s, ty)), version, now, public_addrs))
    /\ event' = Event("connected", s, Garbage, public_addrs)
    /\ UNCHANGED <<now, notify_tokens>>

\* the transport closes the identify protocol on session s
Disconnected(s) ==
    /\ Running
    /\ s \in DOMAIN sessions
    /\ sessions' = MapRemove(sessions, s)
    /\ Commit(disconnected(Machine, Context(sessions[s])))
    /\ event' = Event("disconnected", s, Garbage, <<>>)
    /\ UNCHANGED <<now, notify_tokens>>

\* the transport delivers the bytes data received on session s
Received(s, data, public_addrs, store_fails) ==
    /\ Running
    /\ s \in DOMAIN sessions
    /\ Commit(received(Machine, Context(sessions[s]), data, public_addrs, store_fails))
    /\ event' = Event("received", s, data, public_addrs)
    /\ UNCHANGED <<now, sessions, notify_tokens>>

\* the transport delivers the service notify with the given token
Notify(token, order) ==
    /\ Running
    /\ token \in notify_tokens
    /\ Commit(notify(Machine, order, now))
    /\ event' = NoEvent("notify")
    /\ UNCHANGED <<now, sessions, notify_tokens>>

\* ---------------------------------------------------------- the environment
EnvStep ==
    /\ Running
    /\ event' = NoEvent("env")
    /\ verdicts' = <<>>
    /\ calls' = <<>>
    /\ UNCHANGED <<sessions, remote_infos, global_ip_only, panicked, notify_tokens,
                   active, handlers, returned, transport_ok>>

\* one second passes
Advance ==
    /\ EnvStep
    /\ now < MaxTime
    /\ now' = now + 1
    /\ UNCHANGED <<peers, feelers, banned>>

NewPeer == [identify_info |-> None, listened_addrs |-> <<>>, protocols |-> EmptyMap]

\* the peer registry accepts the peer of session s
AcceptPeer(s) ==
    /\ EnvStep
    /\ s \notin DOMAIN peers
    /\ peers' = MapInsert(peers, s, NewPeer)
    /\ UNCHANGED <<now, feelers, banned>>

\* the peer registry removes the peer of session s
RemovePeer(s) ==
    /\ EnvStep
    /\ s \in DOMAIN peers
    /\ peers' = MapRemove(peers, s)
    /\ UNCHANGED <<now, feelers, banned>>

\* the peer registry marks the address of session s as feeler
AddFeeler(s) ==
    /\ EnvStep
    /\ s \notin feelers
    /\ feelers' = feelers \cup {s}
    /\ UNCHANGED <<now, peers, banned>>

\* the peer registry removes the feeler mark of the address of session s
RemoveFeeler(s) ==
    /\ EnvStep
    /\ s \in feelers
    /\ feelers' = feelers \ {s}
    /\ UNCHANGED <<now, peers, banned>>

\* the service stops taking the requests of the context, or takes them again
SetTransport(b) ==
    /\ Running
    /\ transport_ok # b
    /\ transport_ok' = b
    /\ event' = NoEvent("env")
    /\ verdicts' = <<>>
    /\ calls' = <<>>
    /\ UNCHANGED <<now, sessions, remote_infos, global_ip_only, peers, feelers, banned,
                   panicked, notify_tokens, active, handlers, returned>>

\* The handshake of one session: every identify payload, the registry and the
\* sweep.
Next ==
    \/ ProtocolInit(TRUE)
    \/ \E ty \in SessionTypes, v \in ProtocolVersions : Connected(1, ty, v, <<>>)
    \/ Disconnected(1)
    \/ \E data \in HandshakePayloads : Received(1, data, <<>>, {})
    \/ \E order \in Orders(DOMAIN remote_infos) : Notify(CHECK_TIMEOUT_TOKEN, order)
    \/ Advance
    \/ AcceptPeer(1)
    \/ RemovePeer(1)
    \/ AddFeeler(1)
    \/ RemoveFeeler(1)

Spec == Init /\ [][Next]_vars

\* Two sessions and the timeout sweep.
NextSweep ==
    \/ \E ok \in BOOLEAN : ProtocolInit(ok)
    \/ \E s \in Sessions, ty \in SessionTypes, v \in ProtocolVersions :
          Connected(s, ty, v, <<>>)
    \/ \E s \in Sessions : Disconnected(s)
    \/ \E s \in Sessions, data \in SweepPayloads : Received(s, data, <<>>, {})
    \/ \E order \in Orders(DOMAIN remote_infos) : Notify(CHECK_TIMEOUT_TOKEN, order)
    \/ Advance

SpecSweep == Init /\ [][NextSweep]_vars

\* Two sessions and the sweep over a transport whose requests can fail.
NextTransport ==
    \/ ProtocolInit(TRUE)
    \/ \E s \in Sessions, ty \in SessionTypes, v \in ProtocolVersions :
          Connected(s, ty, v, <<>>)
    \/ \E s \in Sessions : Disconnected(s)
    \/ \E s \in Sessions, data \in TransportPayloads : Received(s, data, <<>>, {})
    \/ \E order \in Orders(DOMAIN remote_infos) : Notify(CHECK_TIMEOUT_TOKEN, order)
    \/ Advance
    \/ \E b \in BOOLEAN : SetTransport(b)

SpecTransport == Init /\ [][NextTransport]_vars

\* An outbound session, 1, and an inbound session, 2, that connect, are
\* banned or not, disconnect and connect again.
NextOutbound ==
    \/ ProtocolInit(TRUE)
    \/ \E v \in ProtocolVersions : Connected(1, "outbound", v, <<>>)
    \/ \E v \in ProtocolVersions : Connected(2, "inbound", v, <<>>)
    \/ \E s \in Sessions : Disconnected(s)
    \/ \E s \in Sessions, data \in TransportPayloads : Received(s, data, <<>>, {})
    \/ \E order \in Orders(DOMAIN remote_infos) : Notify(CHECK_TIMEOUT_TOKEN, order)
    \/ Advance

SpecOutbound == Init /\ [][NextOutbound]_vars

\* The addresses of one session, with and without global-IP-only mode.
InitAddrs ==
    /\ now = 0
    /\ sessions = EmptyMap
    /\ remote_infos = EmptyMap
    /\ global_ip_only \in BOOLEAN
    /\ peers = EmptyMap
    /\ feelers = {}
    /\ banned = {}
    /\ panicked = FALSE
    /\ notify_tokens = {}
    /\ event = NoEvent("new")
    /\ verdicts = <<>>
    /\ calls = <<>>
    /\ active = TRUE
    /\ handlers = EmptyMap
    /\ returned = <<>>
    /\ transport_ok = TRUE

NextAddrs ==
    \/ ProtocolInit(TRUE)
    \/ \E ty \in SessionTypes, v \in ProtocolVersions, pa \in PublicAddrLists :
          Connected(1, ty, v, pa)
    \/ Disconnected(1)
    \/ \E data \in AddressPayloads, pa \in PublicAddrLists, sf \in StoreFailSets :
          Received(1, data, pa, sf)
    \/ AcceptPeer(1)
    \/ RemovePeer(1)

SpecAddrs == InitAddrs /\ [][NextAddrs]_vars

\* ------------------------------------------------------------ the adapter
\* the protocols whose handlers the adapter wraps
AdapterProtocols == {"Sync", "Time"}
AdapterProtocolIds == {protocol_id(p) : p \in AdapterProtocols}

\* what a call of the transport returns
TransportResults == {Ok, Err("BrokenPipe")}

\* what the poll of a wrapped handler returns
PollResults == {"Ready(None)", "Pending"}

ContextOperations ==
    {"set_notify", "remove_notify", "quick_send_message", "quick_send_message_to",
     "quick_filter_broadcast", "future_task", "send_message", "send_message_to",
     "filter_broadcast", "disconnect"}

\* an event of the adapter or an operation of its context, with its inputs
AdapterEvent(kind, proto_id, s, arg) ==
    [kind |-> kind, proto_id |-> proto_id, session |-> s, arg |-> arg]

\* The wrapped handler is any CKBProtocolHandler. One that records its peers
\* keeps in known the sessions of which it was told connected and not yet
\* disconnected; one that does not leaves known empty.
NewHandler == [inited |-> FALSE, sessions |-> {}, recording |-> FALSE, known |-> {}]

RecordingHandler == [NewHandler EXCEPT !.recording = TRUE]

\* the event has made the call op on the wrapped handler
Called(m, op) == \E i \in DOMAIN m.calls : m.calls[i].op = op

InitAdapter ==
    /\ now = 0
    /\ sessions = EmptyMap
    /\ remote_infos = EmptyMap
    /\ global_ip_only = TRUE
    /\ peers = EmptyMap
    /\ feelers = {}
    /\ banned = {}
    /\ panicked = FALSE
    /\ notify_tokens = {}
    /\ event = NoEvent("new")
    /\ verdicts = <<>>
    /\ calls = <<>>
    /\ active = TRUE
    /\ handlers = [id \in AdapterProtocolIds |-> NewHandler]
    /\ returned = <<>>
    /\ transport_ok = TRUE

\* the machine after an event of the adapter becomes the state
AdapterCommit(m) ==
    /\ peers' = m.peers
    /\ calls' = m.calls
    /\ verdicts' = <<>>
    /\ UNCHANGED <<now, sessions, remote_infos, global_ip_only, feelers, banned, panicked,
                   notify_tokens, active, transport_ok>>

\* the transport has delivered init to every handler
Started == \A id \in DOMAIN handlers : handlers[id].inited

CKBHandlerInit(id) ==
    /\ ~handlers[id].inited
    /\ AdapterCommit(CKBHandler_init(Machine, id))
    /\ handlers' = [handlers EXCEPT ![id].inited = TRUE]
    /\ event' = AdapterEvent("CKBHandler::init", id, 0, <<>>)
    /\ returned' = <<>>

CKBHandlerConnected(id, s, version) ==
    /\ Started
    /\ s \notin handlers[id].sessions
    /\ LET m == CKBHandler_connected(Machine, id, s, version)
       IN  /\ AdapterCommit(m)
           /\ handlers' = [handlers EXCEPT
                              ![id].sessions = @ \cup {s},
                              ![id].known =
                                  IF handlers[id].recording /\ Called(m, "handler.connected")
                                  THEN @ \cup {s} ELSE @]
    /\ event' = AdapterEvent("CKBHandler::connected", id, s, [version |-> version])
    /\ returned' = <<>>

CKBHandlerDisconnected(id, s) ==
    /\ Started
    /\ s \in handlers[id].sessions
    /\ LET m == CKBHandler_disconnected(Machine, id, s)
       IN  /\ AdapterCommit(m)
           /\ handlers' = [handlers EXCEPT
                              ![id].sessions = @ \ {s},
                              ![id].known =
                                  IF handlers[id].recording /\ Called(m, "handler.disconnected")
                                  THEN @ \ {s} ELSE @]
    /\ event' = AdapterEvent("CKBHandler::disconnected", id, s, <<>>)
    /\ returned' = <<>>

CKBHandlerReceived(id, s, data) ==
    /\ Started
    /\ s \in handlers[id].sessions
    /\ AdapterCommit(CKBHandler_received(Machine, id, s, data))
    /\ event' = AdapterEvent("CKBHandler::received", id, s, [data |-> data])
    /\ returned' = <<>>
    /\ UNCHANGED handlers

CKBHandlerNotify(id, token) ==
    /\ Started
    /\ AdapterCommit(CKBHandler_notify(Machine, id, token))
    /\ event' = AdapterEvent("CKBHandler::notify", id, 0, [token |-> token])
    /\ returned' = <<>>
    /\ UNCHANGED handlers

CKBHandlerPoll(id, polled) ==
    /\ Started
    /\ LET r == CKBHandler_poll(Machine, id, polled)
       IN  AdapterCommit(r.m) /\ returned' = r.result
    /\ event' = AdapterEvent("CKBHandler::poll", id, 0, [polled |-> polled])
    /\ UNCHANGED handlers

\* the operation op of the context of protocol id
ContextOperation(m, nc, op, s, blocking, result) ==
    CASE op = "set_notify" -> set_notify(m, nc, CHECK_TIMEOUT_INTERVAL, CHECK_TIMEOUT_TOKEN, result)
      [] op = "remove_notify" -> remove_notify(m, nc, CHECK_TIMEOUT_TOKEN, result)
      [] op = "quick_send_message" -> quick_send_message(m, nc, nc.proto_id, s, "bytes", result)
      [] op = "quick_send_message_to" -> quick_send_message_to(m, nc, s, "bytes", result)
      [] op = "quick_filter_broadcast" -> quick_filter_broadcast(m, nc, "All", "bytes", result)
      [] op = "future_task" -> future_task(m, nc, [task |-> "task"], blocking, result)
      [] op = "send_message" -> send_message(m, nc, nc.proto_id, s, "bytes", result)
      [] op = "send_message_to" -> send_message_to(m, nc, s, "bytes", result)
      [] op = "filter_broadcast" -> filter_broadcast(m, nc, "All", "bytes", result)
      [] op = "disconnect" -> disconnect(m, nc, s, "bye", result)

\* the wrapped handler of protocol id calls the operation op of its context
ContextCall(id, op, s, blocking, result) ==
    /\ handlers[id].inited
    /\ LET r == ContextOperation(Machine, DefaultCKBProtocolContext(id), op, s, blocking,
                                 result)
       IN  AdapterCommit(r.m) /\ returned' = r.result
    /\ event' = AdapterEvent("context", id, s,
                             [op |-> op, blocking |-> blocking, result |-> result])
    /\ UNCHANGED handlers

\* the network process becomes inactive, or active again
SetActive(b) ==
    /\ Started
    /\ active # b
    /\ active' = b
    /\ event' = NoEvent("env")
    /\ verdicts' = <<>>
    /\ calls' = <<>>
    /\ returned' = <<>>
    /\ UNCHANGED <<now, sessions, remote_infos, global_ip_only, peers, feelers, banned,
                   panicked, notify_tokens, handlers, transport_ok>>

NextAdapter ==
    \/ \E id \in AdapterProtocolIds : CKBHandlerInit(id)
    \/ \E id \in AdapterProtocolIds, s \in Sessions, v \in ProtocolVersions :
          CKBHandlerConnected(id, s, v)
    \/ \E id \in AdapterProtocolIds, s \in Sessions : CKBHandlerDisconnected(id, s)
    \/ \E id \in AdapterProtocolIds, s \in Sessions : CKBHandlerReceived(id, s, "bytes")
    \/ \E id \in AdapterProtocolIds : CKBHandlerNotify(id, CHECK_TIMEOUT_TOKEN)
    \/ \E id \in AdapterProtocolIds, polled \in PollResults : CKBHandlerPoll(id, polled)
    \/ \E id \in AdapterProtocolIds, op \in ContextOperations, b \in BOOLEAN,
          r \in TransportResults : ContextCall(id, op, 1, b, r)
    \/ \E b \in BOOLEAN : SetActive(b)
    \/ \E s \in Sessions : AcceptPeer(s)
    \/ \E s \in Sessions : RemovePeer(s)

SpecAdapter == InitAdapter /\ [][NextAdapter]_vars

\* the wrapped handler of protocol id asks its context for the connected
\* peers
ConnectedPeers(id) ==
    /\ handlers[id].inited
    /\ LET r == connected_peers(Machine, DefaultCKBProtocolContext(id))
       IN  AdapterCommit(r.m) /\ returned' = r.result
    /\ event' = AdapterEvent("context", id, 0, [op |-> "connected_peers"])
    /\ UNCHANGED handlers

\* The registry's protocol map of two sessions under the connected and
\* disconnected events of two protocols, read through connected_peers.
NextPeers ==
    \/ \E id \in AdapterProtocolIds : CKBHandlerInit(id)
    \/ \E id \in AdapterProtocolIds, s \in Sessions, v \in ProtocolVersions :
          CKBHandlerConnected(id, s, v)
    \/ \E id \in AdapterProtocolIds, s \in Sessions : CKBHandlerDisconnected(id, s)
    \/ \E id \in AdapterProtocolIds : ConnectedPeers(id)
    \/ \E b \in BOOLEAN : SetActive(b)
    \/ \E s \in Sessions : AcceptPeer(s)
    \/ \E s \in Sessions : RemovePeer(s)

SpecPeers == InitAdapter /\ [][NextPeers]_vars

\* the adapters wrap handlers that record their peers
InitRecording ==
    /\ now = 0
    /\ sessions = EmptyMap
    /\ remote_infos = EmptyMap
    /\ global_ip_only = TRUE
    /\ peers = EmptyMap
    /\ feelers = {}
    /\ banned = {}
    /\ panicked = FALSE
    /\ notify_tokens = {}
    /\ event = NoEvent("new")
    /\ verdicts = <<>>
    /\ calls = <<>>
    /\ active = TRUE
    /\ handlers = [id \in AdapterProtocolIds |-> RecordingHandler]
    /\ returned = <<>>
    /\ transport_ok = TRUE

\* The adapter in a network process that, once inactive, stays inactive.
NextDeactivate ==
    \/ \E id \in AdapterProtocolIds : CKBHandlerInit(id)
    \/ \E id \in AdapterProtocolIds, s \in Sessions, v \in ProtocolVersions :
          CKBHandlerConnected(id, s, v)
    \/ \E id \in AdapterProtocolIds, s \in Sessions : CKBHandlerDisconnected(id, s)
    \/ \E id \in AdapterProtocolIds, s \in Sessions : CKBHandlerReceived(id, s, "bytes")
    \/ SetActive(FALSE)
    \/ \E s \in Sessions : AcceptPeer(s)
    \/ \E s \in Sessions : RemovePeer(s)

SpecDeactivate == InitRecording /\ [][NextDeactivate]_vars

\* The same adapter in a network process that can become active again.
NextReactivate ==
    \/ \E id \in AdapterProtocolIds : CKBHandlerInit(id)
    \/ \E id \in AdapterProtocolIds, s \in Sessions, v \in ProtocolVersions :
          CKBHandlerConnected(id, s, v)
    \/ \E id \in AdapterProtocolIds, s \in Sessions : CKBHandlerDisconnected(id, s)
    \/ \E id \in AdapterProtocolIds, s \in Sessions : CKBHandlerReceived(id, s, "bytes")
    \/ \E b \in BOOLEAN : SetActive(b)
    \/ \E s \in Sessions : AcceptPeer(s)
    \/ \E s \in Sessions : RemovePeer(s)

SpecReactivate == InitRecording /\ [][NextReactivate]_vars

\* ------------------------------------------------------ the pure functions
FlagValues == 0..(2 ^ (MaxFlagBit + 1) - 1)

\* the application of a function to its arguments
Application(kind, args) == [kind |-> kind, args |-> args]

\* the frame of an application: only event and returned change
Applied ==
    /\ calls' = <<>>
    /\ verdicts' = <<>>
    /\ UNCHANGED <<now, sessions, remote_infos, global_ip_only, peers, feelers, banned,
                   panicked, notify_tokens, active, handlers, transport_ok>>

\* the arguments are drawn before the function is applied
InitFunctions ==
    /\ now = 0
    /\ sessions = EmptyMap
    /\ remote_infos = EmptyMap
    /\ global_ip_only = TRUE
    /\ peers = EmptyMap
    /\ feelers = {}
    /\ banned = {}
    /\ panicked = FALSE
    /\ notify_tokens = {}
    /\ event \in {Application("flags", [a |-> a, b |-> b, c |-> c]) : a, b, c \in FlagValues}
                    \cup {Application("protocol", [p |-> p]) : p \in SupportProtocols}
    /\ verdicts = <<>>
    /\ calls = <<>>
    /\ active = TRUE
    /\ handlers = EmptyMap
    /\ returned = <<>>
    /\ transport_ok = TRUE

\* Flags::contains on the pairs of three flag values
FlagsContains ==
    /\ event.kind = "flags"
    /\ event' = Application("contains", event.args)
    /\ returned' = [aa |-> contains(event.args.a, event.args.a),
                    ab |-> contains(event.args.a, event.args.b),
                    bc |-> contains(event.args.b, event.args.c),
                    ac |-> contains(event.args.a, event.args.c)]
    /\ Applied

\* the descriptor of a support protocol is built
BuildMeta ==
    /\ event.kind = "protocol"
    /\ event' = Application("build_meta", event.args)
    /\ returned' = MetaBuilder_from(event.args.p)
    /\ Applied

NextFunctions == FlagsContains \/ BuildMeta

SpecFunctions == InitFunctions /\ [][NextFunctions]_vars

TypeOK ==
    /\ now \in 0..MaxTime
    /\ DOMAIN sessions \subseteq Sessions
    /\ DOMAIN remote_infos \subseteq Sessions
    /\ DOMAIN peers \subseteq Sessions
    /\ feelers \subseteq Sessions
    /\ panicked \in BOOLEAN
    /\ transport_ok \in BOOLEAN

\* ------------------------------------------------- reading the last event
\* the calls of cs with operation op
CallsIn(cs, op) == SelectSeq(cs, LAMBDA c : c.op = op)

\* the misbehaviors of the given kind reported for session s in cs
Reports(cs, s, kind) ==
    SelectSeq(cs, LAMBDA c : c.op = "misbehave" /\ c.session = s /\ c.arg.kind = kind)

\* the disconnect requests for session s in cs
DisconnectsOf(cs, s) == SelectSeq(cs, LAMBDA c : c.op = "disconnect" /\ c.session = s)

\* the positions of the calls of cs with operation op
PositionsIn(cs, op) == {i \in 1..Len(cs) : cs[i].op = op}

\* ev is a received event whose bytes were decoded
DecodedEvent(ev) == ev.kind = "received" /\ ev.data.decodable

\* the identify data of ev passes Identify::verify
VerifiedEvent(ev) ==
    /\ DecodedEvent(ev)
    /\ ev.data.identify.wellformed
    /\ ev.data.identify.name = LocalName
    /\ ev.data.identify.flag # 0
    /\ ev.data.identify.client_version # InvalidUtf8

\* ----------------------------------------------------------------- claims
\* C1: the first decoded message of a session passes the duplicate check
\* with Continue and sets has_received; every later decoded message of the
\* session raises DuplicateReceived and a disconnect request for the session.
C1_DuplicateCheck ==
    [][DecodedEvent(event') =>
        LET s == event'.session
        IN  /\ remote_infos'[s].has_received
            /\ IF remote_infos[s].has_received
               THEN /\ verdicts'[1] = "Disconnect"
                    /\ Len(Reports(calls', s, "DuplicateReceived")) = 1
                    /\ calls'[1] = Call("misbehave", s, Misbehavior("DuplicateReceived", 0))
                    /\ calls'[2] = Call("disconnect", s, <<>>)
               ELSE /\ verdicts'[1] = "Continue"
                    /\ Reports(calls', s, "DuplicateReceived") = <<>>]_vars

\* C1 witness: a second valid message has been received on a session
C1_Witness ==
    /\ DecodedEvent(event)
    /\ VerifiedEvent(event)
    /\ verdicts[1] = "Disconnect"
    /\ Reports(calls, event.session, "DuplicateReceived") # <<>>
    /\ DisconnectsOf(calls, event.session) # <<>>

\* the session s of remote_infos is past its deadline without a message
Expired(s) ==
    /\ ~remote_infos[s].has_received
    /\ remote_infos[s].connected_at + 8 <= now

\* C2: at a sweep, a session that has received no message and whose timeout
\* of 8 seconds has elapsed is reported as Timeout and gets a disconnect
\* request; a session whose message was decoded is not reported as Timeout.
C2_TimeoutSweep ==
    event.kind = "notify" =>
        \A s \in DOMAIN remote_infos :
            /\ Expired(s) =>
                  /\ Len(Reports(calls, s, "Timeout")) = 1
                  /\ Len(DisconnectsOf(calls, s)) = 1
            /\ remote_infos[s].has_received =>
                  /\ Reports(calls, s, "Timeout") = <<>>
                  /\ DisconnectsOf(calls, s) = <<>>

\* C2 witness: a sweep at the deadline of one session reports it, while the
\* other session, past its deadline too, has received its message
C2_Witness ==
    /\ event.kind = "notify"
    /\ \E s, t \in DOMAIN remote_infos :
          /\ Expired(s)
          /\ remote_infos[s].connected_at + 8 = now
          /\ Reports(calls, s, "Timeout") # <<>>
          /\ remote_infos[t].has_received
          /\ remote_infos[t].connected_at + 8 <= now
          /\ Reports(calls, t, "Timeout") = <<>>


\* the addresses of the peer_store.add_addr calls of cs, in order
StoredAddrs(cs) ==
    LET stores == CallsIn(cs, "add_addr")
    IN  [i \in 1..Len(stores) |-> stores[i].arg.addr]

\* every position of P comes before every position of Q
Before(P, Q) == \A i \in P, j \in Q : i < j

C4_WrongNetworkBanned ==
    (DecodedEvent(event) /\ event.data.identify.wellformed
        /\ event.data.identify.name # LocalName) =>
        LET s == event.session
        IN  /\ verify(LocalIdentify, event.data.identify) = None
            /\ verdicts[2] = "Disconnect"
            /\ Len(CallsIn(calls, "ban_session")) = 1
            /\ CallsIn(calls, "ban_session")[1].session = s
            /\ CallsIn(calls, "ban_session")[1].arg.duration = 300

\* C4 witness: a payload of another network with the full-node flag
C4_Witness ==
    /\ DecodedEvent(event)
    /\ event.data.identify.wellformed
    /\ event.data.identify.name = "ckb_testnet"
    /\ event.data.identify.flag = FullNode
    /\ verdicts[2] = "Disconnect"
    /\ CallsIn(calls, "ban_session") # <<>>

\* C5: a ban is requested in a received event only when the payload names
\* another network; a payload of the local network with flags 0 is rejected
\* by verify and yields Disconnect without a ban.
C5_BanOnlyForOtherNetwork ==
    DecodedEvent(event) =>
        /\ CallsIn(calls, "ban_session") # <<>> =>
              ~(event.data.identify.wellformed /\ event.data.identify.name = LocalName)
        /\ (event.data.identify.wellformed /\ event.data.identify.name = LocalName
               /\ event.data.identify.flag = 0) =>
              /\ verify(LocalIdentify, event.data.identify) = None
              /\ verdicts[2] = "Disconnect"
              /\ CallsIn(calls, "ban_session") = <<>>

\* the session of ev is outbound
OutboundEvent(ev) == sessions[ev.session].ty = "outbound"

\* the flags of ev have every bit of the local required flags
SufficientFlags(ev) == BitAnd(ev.data.identify.flag, FullNode) = FullNode

\* the client version recorded for session s in the registry reg
RecordedVersion(reg, s) == IF s \in DOMAIN reg THEN reg[s].identify_info ELSE None

\* C6: on an outbound session that is not feeler, a verified payload whose
\* flags lack a required bit yields Disconnect, without a ban, without an
\* open-protocols request and without a recorded client version.
C6_InsufficientFlags ==
    [][(VerifiedEvent(event') /\ OutboundEvent(event') /\ event'.session \notin feelers
           /\ ~SufficientFlags(event')) =>
        LET s == event'.session
        IN  /\ verdicts'[2] = "Disconnect"
            /\ CallsIn(calls', "ban_session") = <<>>
            /\ CallsIn(calls', "open_protocols") = <<>>
            /\ RecordedVersion(peers', s) = RecordedVersion(peers, s)]_vars

\* C6 witness: flags 2 on an outbound session that is not feeler and is
\* registered
C6_Witness ==
    /\ VerifiedEvent(event)
    /\ OutboundEvent(event)
    /\ event.session \notin feelers
    /\ event.session \in DOMAIN peers
    /\ event.data.identify.flag = 2
    /\ verdicts[2] = "Disconnect"

\* C7: on an outbound session whose address is marked feeler, a verified
\* payload causes exactly one open-protocols request, for the feeler protocol
\* only; no client version is recorded, the flags are not checked, and the
\* verdict is Continue.
C7_FeelerOnly ==
    [][(VerifiedEvent(event') /\ OutboundEvent(event') /\ event'.session \in feelers) =>
        LET s == event'.session
        IN  /\ verdicts'[2] = "Continue"
            /\ CallsIn(calls', "open_protocols") =
                   <<Call("open_protocols", s, [kind |-> "Single", ids |-> {3}])>>
            /\ CallsIn(calls', "ban_session") = <<>>
            /\ RecordedVersion(peers', s) = RecordedVersion(peers, s)]_vars

\* C7 witness: a feeler session whose payload lacks the required flag and
\* whose peer is registered without a client version
C7_Witness ==
    /\ VerifiedEvent(event)
    /\ OutboundEvent(event)
    /\ event.session \in feelers
    /\ event.data.identify.flag = 2
    /\ event.session \in DOMAIN peers
    /\ peers[event.session].identify_info = None
    /\ verdicts[2] = "Continue"
    /\ Len(CallsIn(calls, "open_protocols")) = 1


\* the session of ev is inbound
InboundEvent(ev) == sessions[ev.session].ty = "inbound"

\* the peer of session s has the client version of ev's payload recorded
VersionRecorded(s, ev) ==
    /\ s \in DOMAIN peers
    /\ peers[s].identify_info = Some([client_version |-> ev.data.identify.client_version])

\* the open-protocols request for every protocol but feeler, for session s
OpenAllButFeeler(s) ==
    Call("open_protocols", s,
         [kind |-> "Filter", ids |-> {0, 1, 2, 4, 100, 101, 102, 110}])

\* C8, as stated: on an outbound session that is not feeler, a verified
\* payload whose flags contain the required flags has its client version
\* recorded in the peer registry and causes one open-protocols request for
\* every protocol but feeler; the verdict is Continue.
C8_VersionAlwaysRecorded ==
    (VerifiedEvent(event) /\ OutboundEvent(event) /\ event.session \notin feelers
        /\ SufficientFlags(event)) =>
        /\ VersionRecorded(event.session, event)
        /\ CallsIn(calls, "open_protocols") = <<OpenAllButFeeler(event.session)>>
        /\ verdicts[2] = "Continue"

\* C8, amended: the client version is recorded when the peer registry holds
\* a peer for the session; without one nothing is recorded, and the request
\* and the verdict are the same.
C8_OpenAllButFeeler ==
    (VerifiedEvent(event) /\ OutboundEvent(event) /\ event.session \notin feelers
        /\ SufficientFlags(event)) =>
        /\ event.session \in DOMAIN peers => VersionRecorded(event.session, event)
        /\ CallsIn(calls, "open_protocols") = <<OpenAllButFeeler(event.session)>>
        /\ verdicts[2] = "Continue"

\* C8 witness: flags 3 on a registered outbound session that is not feeler
C8_Witness ==
    /\ VerifiedEvent(event)
    /\ OutboundEvent(event)
    /\ event.session \notin feelers
    /\ event.data.identify.flag = 3
    /\ VersionRecorded(event.session, event)
    /\ Len(CallsIn(calls, "open_protocols")) = 1

\* C9, as stated: on an inbound session every verified payload records the
\* client version and returns Continue, without an open-protocols request,
\* whatever the feeler mark of the address and whatever the flags.
C9_InboundAlwaysRecorded ==
    (VerifiedEvent(event) /\ InboundEvent(event)) =>
        /\ VersionRecorded(event.session, event)
        /\ verdicts[2] = "Continue"
        /\ CallsIn(calls, "open_protocols") = <<>>
        /\ CallsIn(calls, "ban_session") = <<>>

\* C9, amended: the client version is recorded when the peer registry holds
\* a peer for the session; without one nothing is recorded.
C9_InboundOnlyRecords ==
    (VerifiedEvent(event) /\ InboundEvent(event)) =>
        /\ event.session \in DOMAIN peers => VersionRecorded(event.session, event)
        /\ verdicts[2] = "Continue"
        /\ CallsIn(calls, "open_protocols") = <<>>
        /\ CallsIn(calls, "ban_session") = <<>>

\* C9 witness: a registered inbound session whose address is marked feeler
\* and whose payload lacks the required flag
C9_Witness ==
    /\ VerifiedEvent(event)
    /\ InboundEvent(event)
    /\ event.session \in feelers
    /\ event.data.identify.flag = 2
    /\ VersionRecorded(event.session, event)
    /\ verdicts[2] = "Continue"

\* the listen addresses the registry reg holds for session s
ListenedAddrs(reg, s) == IF s \in DOMAIN reg THEN reg[s].listened_addrs ELSE <<>>

\* C10: the listen addresses of a decoded message yield TooManyAddresses
\* with their count and Disconnect exactly when there are more than 10 of
\* them; a rejected list hands no address to the peer registry or the peer
\* store.
C10_TooManyAddresses ==
    [][DecodedEvent(event') =>
        LET s == event'.session
            count == Len(event'.data.listen_addrs)
        IN  IF count > 10
            THEN /\ verdicts'[3] = "Disconnect"
                 /\ Reports(calls', s, "TooManyAddresses") =
                        <<Call("misbehave", s, Misbehavior("TooManyAddresses", count))>>
                 /\ CallsIn(calls', "add_addr") = <<>>
                 /\ ListenedAddrs(peers', s) = ListenedAddrs(peers, s)
            ELSE /\ verdicts'[3] = "Continue"
                 /\ Reports(calls', s, "TooManyAddresses") = <<>>]_vars

\* C10 witness: a list of 11 addresses is rejected on a session whose peer
\* holds the addresses of an accepted list of 10
C10_Witness ==
    /\ DecodedEvent(event)
    /\ Len(event.data.listen_addrs) = 11
    /\ verdicts[3] = "Disconnect"
    /\ event.session \in DOMAIN peers
    /\ peers[event.session].listened_addrs = FilterSeq(ListenList(10), global_ip_only)

\* the publicly reachable addresses of addrs, in their order
PublicOnly(addrs) == SelectSeq(addrs, LAMBDA a : a.host = "global")

\* the listen addresses of the messages sent by the calls cs
SentListens(cs) ==
    LET sends == CallsIn(cs, "quick_send_message")
    IN  [i \in 1..Len(sends) |-> sends[i].arg.listen_addrs]

\* C11: in global-IP-only mode, the listen addresses advertised on connect
\* are the publicly reachable local addresses, and the addresses of an
\* accepted received list handed to the peer store and the peer registry are
\* its publicly reachable addresses, all of them and in their order; private
\* addresses and addresses without a socket address are on neither path.
C11_GlobalOnlyAddresses ==
    global_ip_only =>
        /\ event.kind = "connected" =>
              /\ Len(event.public_addrs) <= 10 =>
                    SentListens(calls) = <<PublicOnly(event.public_addrs)>>
              /\ \A i \in DOMAIN SentListens(calls) :
                    \A j \in DOMAIN SentListens(calls)[i] :
                        SentListens(calls)[i][j].host = "global"
        /\ DecodedEvent(event) =>
              /\ \A i \in DOMAIN StoredAddrs(calls) : StoredAddrs(calls)[i].host = "global"
              /\ Len(event.data.listen_addrs) <= 10 =>
                    /\ StoredAddrs(calls) = PublicOnly(event.data.listen_addrs)
                    /\ event.session \in DOMAIN peers =>
                          peers[event.session].listened_addrs =
                              PublicOnly(event.data.listen_addrs)

\* C11 witness: in global-IP-only mode, a list of a public, a private and a
\* public address is received by a registered session that advertised one
\* of its three local addresses; two addresses are kept
C11_Witness ==
    /\ global_ip_only
    /\ DecodedEvent(event)
    /\ Len(event.data.listen_addrs) = 3
    /\ event.session \in DOMAIN peers
    /\ peers[event.session].listened_addrs =
           <<Multiaddr("global", 8115, "a"), Multiaddr("global", 8116, "c")>>
    /\ Len(StoredAddrs(calls)) = 2

\* C11 witness of the connect path: three local addresses, one advertised
C11_WitnessConnect ==
    /\ global_ip_only
    /\ event.kind = "connected"
    /\ Len(event.public_addrs) = 3
    /\ SentListens(calls) = <<<<Multiaddr("global", 8114, "local")>>>>

\* the candidate lists handed to the address pool by the calls cs
PoolFeeds(cs) ==
    LET feeds == CallsIn(cs, "add_observed_addrs")
    IN  [i \in 1..Len(feeds) |-> feeds[i].arg]

\* C12: the address pool is fed only by a decoded message of an outbound
\* session whose observed address is a publicly reachable IP, and only with
\* addresses of that IP; no other event feeds it, in either mode of the
\* address filter; the observed-address step of every decoded message
\* returns Continue.
C12_PoolGuard ==
    /\ PoolFeeds(calls) # <<>> =>
          /\ DecodedEvent(event)
          /\ ~InboundEvent(event)
          /\ event.data.observed_addr.host = "global"
          /\ \A i \in DOMAIN PoolFeeds(calls) : \A j \in DOMAIN PoolFeeds(calls)[i] :
                PoolFeeds(calls)[i][j].host = "global"
    /\ DecodedEvent(event) => verdicts[4] = "Continue"

\* C12 witness: a decoded message with a public observed address on an
\* inbound session leaves the pool alone
C12_Witness ==
    /\ DecodedEvent(event)
    /\ InboundEvent(event)
    /\ event.data.observed_addr.host = "global"
    /\ event.public_addrs # <<>>
    /\ PoolFeeds(calls) = <<>>
    /\ verdicts[4] = "Continue"

\* C12 witness without global-IP-only mode: a private observed address on an
\* outbound session leaves the pool alone
C12_WitnessPrivate ==
    /\ ~global_ip_only
    /\ DecodedEvent(event)
    /\ OutboundEvent(event)
    /\ event.data.observed_addr.host = "private"
    /\ PoolFeeds(calls) = <<>>
    /\ verdicts[4] = "Continue"

\* the observed address of ev with the local peer id when it carries none
ObservedWithPeerId(ev) ==
    LET observed == ev.data.observed_addr
    IN  IF observed.peer = "" THEN Multiaddr(observed.host, observed.port, "local")
        ELSE observed

\* ev is a decoded message of an outbound session whose observed address is
\* a publicly reachable IP
ObservedEvent(ev) ==
    DecodedEvent(ev) /\ OutboundEvent(ev) /\ ev.data.observed_addr.host = "global"

\* the first 10 local addresses that resolve to a socket address
LocalSocketListens(ev) ==
    SelectSeq(Take(ev.public_addrs, 10), LAMBDA a : a.host \in {"global", "private"})

\* C13, as stated: the candidates fed to the address pool are one address
\* per publicly reachable local listen address, with its port substituted
\* into the observed address, and the observed address itself.
C13_ReachablePortsOnly ==
    ObservedEvent(event) =>
        /\ Len(PoolFeeds(calls)) = 1
        /\ {PoolFeeds(calls)[1][j] : j \in DOMAIN PoolFeeds(calls)[1]} =
               {[ObservedWithPeerId(event) EXCEPT !.port = a.port] :
                    a \in {event.public_addrs[i] :
                              i \in {k \in DOMAIN event.public_addrs :
                                        event.public_addrs[k].host = "global"}}}
               \cup {ObservedWithPeerId(event)}

\* C13, amended: one candidate per local listen address that resolves to a
\* socket address, publicly reachable or not, in the order of the local
\* addresses, followed by the observed address itself, which carries the
\* local peer id when it came without one.
C13_SocketPorts ==
    ObservedEvent(event) =>
        LET local == LocalSocketListens(event)
        IN  PoolFeeds(calls) =
                <<[i \in 1..Len(local) |->
                      [ObservedWithPeerId(event) EXCEPT !.port = local[i].port]]
                  \o <<ObservedWithPeerId(event)>>>>

\* C13 witness: in global-IP-only mode the port of the private local address
\* is a candidate, after the port of the public one and before the observed
\* address with the local peer id
C13_Witness ==
    /\ global_ip_only
    /\ ObservedEvent(event)
    /\ PoolFeeds(calls) =
           <<<<Multiaddr("global", 8114, "local"), Multiaddr("global", 8115, "local"),
               Multiaddr("global", 9000, "local")>>>>

\* C13 witness of an observed address that carries a peer id
C13_WitnessPeerId ==
    /\ ObservedEvent(event)
    /\ PoolFeeds(calls) = <<<<Multiaddr("global", 9001, "seen")>>>>

\* ev is a received event whose bytes do not decode
UndecodableEvent(ev) == ev.kind = "received" /\ ~ev.data.decodable

\* C14: bytes that do not decode cause one InvalidData report followed by
\* one disconnect request for the session and nothing else: has_received
\* and the rest of the session map, the peer registry and the banned
\* addresses stay as they were, and no ban, open-protocols, peer-store or
\* address-pool call is made.
C14_InvalidData ==
    [][UndecodableEvent(event') =>
        LET s == event'.session
        IN  /\ calls' = <<Call("misbehave", s, Misbehavior("InvalidData", 0)),
                          Call("disconnect", s, <<>>)>>
            /\ verdicts' = <<>>
            /\ remote_infos' = remote_infos
            /\ peers' = peers
            /\ banned' = banned]_vars

\* C14 witness: undecodable bytes on a registered session that has not
\* received a message yet
C14_Witness ==
    /\ UndecodableEvent(event)
    /\ ~remote_infos[event.session].has_received
    /\ event.session \in DOMAIN peers
    /\ Len(Reports(calls, event.session, "InvalidData")) = 1
    /\ Len(DisconnectsOf(calls, event.session)) = 1

\* C15: the session map holds an entry for a session exactly when the
\* session was connected and has not been disconnected since, and the entry
\* of a session is the one created for that session id.
C15_SessionMap ==
    /\ DOMAIN remote_infos = DOMAIN sessions
    /\ \A s \in DOMAIN remote_infos : remote_infos[s].session = sessions[s]

\* C15 witness: session 1 has just been disconnected while session 2, which
\* has received a message, stays connected
C15_Witness ==
    /\ event.kind = "disconnected"
    /\ event.session = 1
    /\ DOMAIN sessions = {2}
    /\ DOMAIN remote_infos = {2}
    /\ remote_infos[2].has_received

\* the descriptor the table of the specification gives for protocol p
Descriptor(p) ==
    CASE p = "Ping" -> [id |-> 0, max_frame_length |-> 1024, blocking |-> {}]
      [] p = "Discovery" -> [id |-> 1, max_frame_length |-> 524288, blocking |-> {}]
      [] p = "Identify" -> [id |-> 2, max_frame_length |-> 2048, blocking |-> {}]
      [] p = "Feeler" -> [id |-> 3, max_frame_length |-> 1024, blocking |-> {}]
      [] p = "DisconnectMessage" -> [id |-> 4, max_frame_length |-> 1024, blocking |-> {}]
      [] p = "Sync" -> [id |-> 100, max_frame_length |-> 2097152, blocking |-> {"received"}]
      [] p = "RelayV2" -> [id |-> 101, max_frame_length |-> 4194304, blocking |-> {"received"}]
      [] p = "Time" -> [id |-> 102, max_frame_length |-> 1024, blocking |-> {}]
      [] p = "Alert" -> [id |-> 110, max_frame_length |-> 131072, blocking |-> {}]

\* C19: every descriptor that is built has the id and the frame length of
\* the table; the ids and the names of the nine protocols are pairwise
\* distinct; the descriptors of sync and relay mark the received event, and
\* no other event, as blocking, and the other descriptors mark no event.
C19_DescriptorTable ==
    /\ event.kind = "build_meta" =>
          /\ returned.id = Descriptor(event.args.p).id
          /\ returned.max_frame_length = Descriptor(event.args.p).max_frame_length
          /\ returned.flag = Descriptor(event.args.p).blocking
    /\ \A p, q \in SupportProtocols :
          p # q => /\ MetaBuilder_from(p).id # MetaBuilder_from(q).id
                   /\ MetaBuilder_from(p).name # MetaBuilder_from(q).name
    /\ \A p \in SupportProtocols :
          MetaBuilder_from(p).flag # {} <=> p \in {"Sync", "RelayV2"}

\* C19 witness: the descriptor of relay has been built
C19_Witness ==
    /\ event.kind = "build_meta"
    /\ event.args.p = "RelayV2"
    /\ returned.id = 101
    /\ returned.max_frame_length = 4194304
    /\ returned.flag = {"received"}
    /\ returned.name = "/ckb/relay"

\* bit i of the flag value x
Bit(x, i) == (x \div (2 ^ i)) % 2

\* every bit set in b is set in a
EveryBitSet(a, b) == \A i \in 0..MaxFlagBit : Bit(b, i) = 1 => Bit(a, i) = 1

\* C20: a.contains(b) is true exactly when every bit set in b is set in a;
\* a.contains(a) is true; a.contains(b) and b.contains(c) imply
\* a.contains(c).
C20_ContainsOrder ==
    event.kind = "contains" =>
        /\ returned.ab <=> EveryBitSet(event.args.a, event.args.b)
        /\ returned.bc <=> EveryBitSet(event.args.b, event.args.c)
        /\ returned.aa
        /\ (returned.ab /\ returned.bc) => returned.ac

\* C20 witness: 7 contains 5 and 5 contains 4; 5 is greater than 2 and does
\* not contain it
C20_Witness ==
    /\ event.kind = "contains"
    /\ event.args = [a |-> 7, b |-> 5, c |-> 4]
    /\ returned.ab /\ returned.bc /\ returned.ac
    /\ ~contains(5, 2)

\* the protocol-version map the registry reg holds for session s
ProtocolsOf(reg, s) == IF s \in DOMAIN reg THEN reg[s].protocols ELSE <<>>

\* ev is the adapter event of the given kind
AdapterKind(ev, kind) == ev.kind = kind

\* C16, as stated: after every connected event of the adapter the registry
\* maps the protocol id to the negotiated version for the session, and after
\* every disconnected event it has no entry for the protocol id, whether
\* the network is active or not.
C16_RegistryAlwaysUpdated ==
    /\ AdapterKind(event, "CKBHandler::connected") =>
          /\ event.session \in DOMAIN peers
          /\ event.proto_id \in DOMAIN peers[event.session].protocols
          /\ peers[event.session].protocols[event.proto_id] = event.arg.version
    /\ AdapterKind(event, "CKBHandler::disconnected") =>
          event.proto_id \notin DOMAIN ProtocolsOf(peers, event.session)

\* C16, amended: the map is updated when the registry holds a peer for the
\* session, whether the network is active or not: connected sets the entry
\* of the protocol id to the negotiated version, disconnected removes it,
\* and the other entries and the other peers stay as they were; without a
\* peer for the session the registry is left as it was.
C16_RegistryUpdatedIfPresent ==
    [][/\ AdapterKind(event', "CKBHandler::connected") =>
            LET id == event'.session
                old == ProtocolsOf(peers, id)
            IN  IF id \in DOMAIN peers
                THEN peers' = [peers EXCEPT ![id].protocols =
                                  [k \in DOMAIN old \cup {event'.proto_id} |->
                                      IF k = event'.proto_id THEN event'.arg.version
                                      ELSE old[k]]]
                ELSE peers' = peers
       /\ AdapterKind(event', "CKBHandler::disconnected") =>
            LET id == event'.session
                old == ProtocolsOf(peers, id)
            IN  IF id \in DOMAIN peers
                THEN peers' = [peers EXCEPT ![id].protocols =
                                  [k \in DOMAIN old \ {event'.proto_id} |-> old[k]]]
                ELSE peers' = peers]_vars

\* C16 witness: while the network is inactive, the second protocol of a
\* registered session has been connected and is in the map, and the
\* handler was not called
C16_Witness ==
    /\ ~active
    /\ AdapterKind(event, "CKBHandler::connected")
    /\ event.session \in DOMAIN peers
    /\ DOMAIN peers[event.session].protocols = {100, 102}
    /\ calls = <<>>

\* C16 witness of the removal while the network is inactive
C16_WitnessDisconnected ==
    /\ ~active
    /\ AdapterKind(event, "CKBHandler::disconnected")
    /\ event.session \in DOMAIN peers
    /\ event.proto_id = 100
    /\ DOMAIN peers[event.session].protocols = {102}
    /\ calls = <<>>

\* the calls of cs on the wrapped handler
Forwarded(cs) ==
    SelectSeq(cs, LAMBDA c : c.op \in {"handler.init", "handler.connected",
                                       "handler.disconnected", "handler.received",
                                       "handler.notify", "handler.poll"})

\* ev is an event the transport delivers to the adapter
DeliveredEvent(ev) ==
    ev.kind \in {"CKBHandler::init", "CKBHandler::connected", "CKBHandler::disconnected",
                 "CKBHandler::received", "CKBHandler::notify", "CKBHandler::poll"}

\* C17: an event delivered to the adapter while the network is inactive
\* causes no call on the wrapped handler.
C17_NoForwardingWhileInactive ==
    (DeliveredEvent(event) /\ ~active) => Forwarded(calls) = <<>>

\* ev is an operation of the context that calls the transport
ContextEvent(ev) == ev.kind = "context"

\* the calls of cs on the transport
TransportCalls(cs) ==
    SelectSeq(cs, LAMBDA c : c.op \in {"p2p.set_service_notify", "p2p.remove_service_notify",
                                       "p2p.quick_send_message_to",
                                       "p2p.quick_filter_broadcast", "p2p.future_task",
                                       "p2p.send_message_to", "p2p.filter_broadcast",
                                       "p2p.disconnect_with_message"})

\* C18: each of the ten operations of the context makes one transport call
\* and returns an error exactly when that call failed, and Ok exactly when it
\* succeeded.
C18_TransportErrorsSurface ==
    ContextEvent(event) =>
        /\ Len(TransportCalls(calls)) = 1
        /\ returned.ok <=> event.arg.result.ok
        /\ ~event.arg.result.ok => returned.error = [p2p |-> event.arg.result.error]

\* C18 witness: send_message returns the error of a failed transport call
C18_Witness ==
    /\ ContextEvent(event)
    /\ event.arg.op = "send_message"
    /\ ~event.arg.result.ok
    /\ ~returned.ok
    /\ Len(TransportCalls(calls)) = 1

\* the calls of cs that request a disconnect or a ban
Sanctions(cs) == SelectSeq(cs, LAMBDA c : c.op \in {"disconnect", "ban_session"})

\* C21: when the transport delivers connected before received and
\* disconnected and nothing after disconnected, no lookup of a RemoteInfo
\* fails, whatever the payloads and the ticks; the disconnect and ban
\* requests of an event each name one session that has a RemoteInfo when the
\* event starts, and those of a received event name the session of the
\* event.
C21_NoFatalEvent ==
    /\ ~panicked
    /\ \A i \in DOMAIN Sanctions(calls) :
          /\ Sanctions(calls)[i].session \in DOMAIN sessions
          /\ event.kind = "received" => Sanctions(calls)[i].session = event.session
          /\ event.kind \in {"received", "notify"}

\* C21 witness: after undecodable bytes, a duplicate message of another
\* network with 11 addresses is answered by a ban and three disconnect
\* requests, and nothing has failed
C21_Witness ==
    /\ ~panicked
    /\ DecodedEvent(event)
    /\ event.data.identify.name = "ckb_testnet"
    /\ Len(event.data.listen_addrs) = 11
    /\ Len(CallsIn(calls, "ban_session")) = 1
    /\ Len(DisconnectsOf(calls, event.session)) = 3

\* the identify messages sent by the calls cs
IdentifySends(cs) == CallsIn(cs, "quick_send_message")

\* C22: a connected event leaves a RemoteInfo of the session with
\* has_received false, a timeout of 8 seconds and the time of the event, and
\* makes one quick send, its last call, of a message for that session with
\* at most 10 local listen addresses and the remote address of the session
\* as observed address; no other event sends a message.
C22_IdentifySent ==
    IF event.kind = "connected"
    THEN LET s == event.session
         IN  /\ s \in DOMAIN remote_infos
             /\ remote_infos[s] = [session |-> sessions[s], connected_at |-> now,
                                   timeout |-> 8, has_received |-> FALSE]
             /\ Len(IdentifySends(calls)) = 1
             /\ calls[Len(calls)] = IdentifySends(calls)[1]
             /\ IdentifySends(calls)[1].session = s
             /\ IdentifySends(calls)[1].arg.decodable
             /\ Len(IdentifySends(calls)[1].arg.listen_addrs) <= 10
             /\ IdentifySends(calls)[1].arg.observed_addr = sessions[s].address
    ELSE IdentifySends(calls) = <<>>

\* C22 witness: a node with more than 10 public addresses advertises the
\* first 10 of them to an outbound session
C22_Witness ==
    /\ event.kind = "connected"
    /\ Len(event.public_addrs) > 10
    /\ OutboundEvent(event)
    /\ Len(IdentifySends(calls)) = 1
    /\ IdentifySends(calls)[1].arg.listen_addrs = Take(event.public_addrs, 10)
    /\ ~remote_infos[event.session].has_received

\* C23: a sweep reports Timeout once, and requests one disconnect, for each
\* session of the session map that has received no message and whose
\* deadline connected_at + timeout is not after the clock; it reports and
\* requests nothing for any other session, and makes no other call.
C23_SweepExactly ==
    event.kind = "notify" =>
        LET due == {s \in DOMAIN remote_infos :
                      /\ ~remote_infos[s].has_received
                      /\ remote_infos[s].connected_at + remote_infos[s].timeout <= now}
        IN  /\ \A s \in Sessions :
                  /\ Len(Reports(calls, s, "Timeout")) = IF s \in due THEN 1 ELSE 0
                  /\ Len(DisconnectsOf(calls, s)) = IF s \in due THEN 1 ELSE 0
            /\ Len(calls) = 2 * Cardinality(due)

\* C23 witness: of two sessions past their deadline, the sweep reports the
\* one that has received nothing and leaves the other alone
C23_Witness ==
    /\ event.kind = "notify"
    /\ DOMAIN remote_infos = {1, 2}
    /\ \A s \in {1, 2} : remote_infos[s].connected_at + remote_infos[s].timeout <= now
    /\ remote_infos[1].has_received
    /\ ~remote_infos[2].has_received
    /\ Reports(calls, 1, "Timeout") = <<>>
    /\ Len(Reports(calls, 2, "Timeout")) = 1
    /\ Len(calls) = 2

\* 1 when the condition holds, 0 otherwise
Count(condition) == IF condition THEN 1 ELSE 0

\* the identify data of ev is rejected on its session
RejectedIdentify(ev) ==
    \/ ~VerifiedEvent(ev)
    \/ OutboundEvent(ev) /\ ev.session \notin feelers /\ ~SufficientFlags(ev)

\* C24: a decoded message causes one disconnect request for each of its
\* offences (a duplicate, a rejected identify, more than 10 listen
\* addresses), each counted on its own, which is the number of steps with
\* the verdict Disconnect; a message without offence causes no request.
C24_DisconnectPerStep ==
    [][DecodedEvent(event') =>
        LET s == event'.session
            offences == Count(remote_infos[s].has_received)
                        + Count(RejectedIdentify(event'))
                        + Count(Len(event'.data.listen_addrs) > 10)
        IN  /\ Len(DisconnectsOf(calls', s)) = offences
            /\ Cardinality({i \in DOMAIN verdicts' : verdicts'[i] = "Disconnect"}) = offences
            /\ Len(CallsIn(calls', "disconnect")) = offences]_vars

\* C24 witness: a duplicate with insufficient flags and 11 addresses gets
\* three disconnect requests
C24_Witness ==
    /\ VerifiedEvent(event)
    /\ verdicts = <<"Disconnect", "Disconnect", "Disconnect", "Continue">>
    /\ Len(DisconnectsOf(calls, event.session)) = 3

\* C24 witness of a message without offence
C24_WitnessClean ==
    /\ VerifiedEvent(event)
    /\ verdicts = <<"Continue", "Continue", "Continue", "Continue">>
    /\ CallsIn(calls, "disconnect") = <<>>

\* C25: a decoded message that fails the duplicate check is not processed
\* further: it causes the DuplicateReceived report and the disconnect
\* request only, and the peer registry stays as it was.
C25_DuplicateInterrupts ==
    [][(DecodedEvent(event') /\ remote_infos[event'.session].has_received) =>
        /\ calls' = <<Call("misbehave", event'.session, Misbehavior("DuplicateReceived", 0)),
                      Call("disconnect", event'.session, <<>>)>>
        /\ peers' = peers]_vars

\* C26: connected adds the entry of its session to the session map and
\* disconnected removes the entry of its session, and each leaves the other
\* entries as they were; received, whatever its verdicts, keeps the set of
\* entries and the entries of the other sessions; the sweep keeps the whole
\* map; the set of entries changes in no other step.
C26_MapFrame ==
    [][LET s == event'.session
       IN  /\ event'.kind = "connected" =>
                 /\ DOMAIN remote_infos' = DOMAIN remote_infos \cup {s}
                 /\ \A t \in DOMAIN remote_infos \ {s} : remote_infos'[t] = remote_infos[t]
           /\ event'.kind = "disconnected" =>
                 /\ DOMAIN remote_infos' = DOMAIN remote_infos \ {s}
                 /\ \A t \in DOMAIN remote_infos' : remote_infos'[t] = remote_infos[t]
           /\ event'.kind = "received" =>
                 /\ DOMAIN remote_infos' = DOMAIN remote_infos
                 /\ \A t \in DOMAIN remote_infos \ {s} : remote_infos'[t] = remote_infos[t]
           /\ event'.kind = "notify" => remote_infos' = remote_infos
           /\ event'.kind \notin {"connected", "disconnected"} =>
                 DOMAIN remote_infos' = DOMAIN remote_infos]_vars

\* C26 witness: a sweep has reported a session and requested its
\* disconnect, and the session is still in the map, next to a session that
\* has received a message
C26_Witness ==
    /\ event.kind = "notify"
    /\ Len(Reports(calls, 1, "Timeout")) = 1
    /\ Len(DisconnectsOf(calls, 1)) = 1
    /\ DOMAIN remote_infos = {1, 2}
    /\ ~remote_infos[1].has_received
    /\ remote_infos[2].has_received

\* C26 witness of a received event: undecodable bytes, answered by a
\* disconnect request, leave the entry in the map
C26_WitnessReceived ==
    /\ UndecodableEvent(event)
    /\ Len(DisconnectsOf(calls, event.session)) = 1
    /\ event.session \in DOMAIN remote_infos

\* C26 witness of a ban: a message of another network is answered by a ban
\* and a disconnect request, and the entry stays in the map
C26_WitnessBan ==
    /\ DecodedEvent(event)
    /\ Len(CallsIn(calls, "ban_session")) = 1
    /\ Len(DisconnectsOf(calls, event.session)) >= 1
    /\ event.session \in DOMAIN remote_infos
    /\ remote_infos[event.session].has_received

\* C27: a transport request that fails is ignored. While the service takes
\* no request, no event is fatal; connected still leaves the RemoteInfo of
\* the session with has_received false after its one identify send; a
\* decoded message still runs its four steps, with one disconnect request
\* for each offence, and sets has_received; an undecodable message is still
\* reported; the sweep still reports every session that is due.
C27_FailureIgnored ==
    [][(~transport_ok) =>
        /\ ~panicked'
        /\ event'.kind = "connected" =>
              /\ event'.session \in DOMAIN remote_infos'
              /\ ~remote_infos'[event'.session].has_received
              /\ Len(IdentifySends(calls')) = 1
        /\ DecodedEvent(event') =>
              LET s == event'.session
                  offences == Count(remote_infos[s].has_received)
                              + Count(RejectedIdentify(event'))
                              + Count(Len(event'.data.listen_addrs) > 10)
              IN  /\ Len(verdicts') = 4
                  /\ Len(DisconnectsOf(calls', s)) = offences
                  /\ remote_infos'[s].has_received
        /\ UndecodableEvent(event') =>
              /\ Len(Reports(calls', event'.session, "InvalidData")) = 1
              /\ Len(DisconnectsOf(calls', event'.session)) = 1
        /\ event'.kind = "notify" =>
              \A s \in DOMAIN remote_infos :
                  Expired(s) => /\ Len(Reports(calls', s, "Timeout")) = 1
                                /\ Len(DisconnectsOf(calls', s)) = 1]_vars

\* C27 witness: on a transport that takes no request, a duplicate of another
\* network with 11 listen addresses has run its four steps with three
\* disconnect requests
C27_Witness ==
    /\ ~transport_ok
    /\ DecodedEvent(event)
    /\ verdicts = <<"Disconnect", "Disconnect", "Disconnect", "Continue">>
    /\ Len(DisconnectsOf(calls, event.session)) = 3

\* C27 witness of the sweep: two sessions are reported though the first
\* disconnect request failed
C27_WitnessSweep ==
    /\ ~transport_ok
    /\ event.kind = "notify"
    /\ \A s \in Sessions : Len(DisconnectsOf(calls, s)) = 1

\* C27 witness of connected: the identify send failed and the RemoteInfo
\* is in the map
C27_WitnessConnected ==
    /\ ~transport_ok
    /\ event.kind = "connected"
    /\ event.session \in DOMAIN remote_infos
    /\ ~remote_infos[event.session].has_received
    /\ IdentifySends(calls) # <<>>

\* the listen addresses of ev that pass the filter of the current mode
FilteredListens(ev) == FilterSeq(ev.data.listen_addrs, global_ip_only)

\* the results of the peer-store insertions of cs
StoreResults(cs) ==
    LET stores == CallsIn(cs, "add_addr")
    IN  [i \in 1..Len(stores) |-> stores[i].arg.ok]

\* C28 as stated: an accepted list sets the listen addresses of the session
\* in the peer registry to the filtered list, whatever the registry holds.
C28_ListensAlwaysSet ==
    [][(DecodedEvent(event') /\ Len(event'.data.listen_addrs) <= 10) =>
        /\ ListenedAddrs(peers', event'.session) = FilteredListens(event')
        /\ StoredAddrs(calls') = FilteredListens(event')
        /\ verdicts'[3] = "Continue"]_vars

\* C28: an accepted list of listen addresses is handed over with the verdict
\* Continue; an insertion into the peer store is attempted for each address
\* of the filtered list, in order, whether or not an earlier one failed; the
\* listen addresses of the session in the peer registry become the filtered
\* list when the registry holds the peer of the session, and the registry
\* gets no entry otherwise.
C28_ListensStored ==
    [][(DecodedEvent(event') /\ Len(event'.data.listen_addrs) <= 10) =>
        LET s == event'.session
        IN  /\ StoredAddrs(calls') = FilteredListens(event')
            /\ Len(Reports(calls', s, "TooManyAddresses")) = 0
            /\ verdicts'[3] = "Continue"
            /\ IF s \in DOMAIN peers
               THEN peers'[s].listened_addrs = FilteredListens(event')
               ELSE s \notin DOMAIN peers']_vars

\* C28 witness: the peer store has refused the first address of an accepted
\* list and was asked for the later ones, and the registry holds the list
C28_Witness ==
    /\ DecodedEvent(event)
    /\ Len(StoreResults(calls)) >= 2
    /\ ~StoreResults(calls)[1]
    /\ StoreResults(calls)[2]
    /\ verdicts[3] = "Continue"
    /\ event.session \in DOMAIN peers
    /\ peers[event.session].listened_addrs = StoredAddrs(calls)

\* C28 witness without a peer: the addresses went to the peer store only
\* and one of them was refused
C28_WitnessNoPeer ==
    /\ DecodedEvent(event)
    /\ event.session \notin DOMAIN peers
    /\ Len(StoreResults(calls)) >= 2
    /\ ~StoreResults(calls)[1]
    /\ verdicts[3] = "Continue"

\* the message of ev was decoded and then rejected by a later check
RejectedEvent(ev) ==
    /\ DecodedEvent(ev)
    /\ RejectedIdentify(ev) \/ Len(ev.data.listen_addrs) > 10

\* C29: has_received of a session is monotone and independent of
\* verification. A RemoteInfo is created with has_received false; a decoded
\* message leaves it true, also when the message is rejected by the identify
\* verification or the address checks; it turns true at a decoded message of
\* its session only; it is never reset while the RemoteInfo exists; and no
\* event reports Timeout for a session whose has_received is true.
C29_HasReceivedMonotone ==
    [][/\ \A s \in DOMAIN remote_infos' :
             IF s \in DOMAIN remote_infos
             THEN /\ remote_infos[s].has_received => remote_infos'[s].has_received
                  /\ (remote_infos'[s].has_received /\ ~remote_infos[s].has_received)
                        => (DecodedEvent(event') /\ event'.session = s)
             ELSE ~remote_infos'[s].has_received
       /\ DecodedEvent(event') => remote_infos'[event'.session].has_received
       /\ \A s \in DOMAIN remote_infos :
             remote_infos[s].has_received => Reports(calls', s, "Timeout") = <<>>]_vars

\* C29 witness: a sweep past the deadline of a session that was banned for
\* a message of another network, and has has_received set, reports nothing
C29_Witness ==
    /\ event.kind = "notify"
    /\ 1 \in DOMAIN remote_infos
    /\ remote_infos[1].has_received
    /\ remote_infos[1].connected_at + 8 <= now
    /\ SessionAddress(1) \in banned
    /\ calls = <<>>

\* C29 witness of the first message: it was rejected and has_received is set
C29_WitnessRejected ==
    /\ RejectedEvent(event)
    /\ verdicts[1] = "Continue"
    /\ "Disconnect" \in {verdicts[i] : i \in DOMAIN verdicts}
    /\ remote_infos[event.session].has_received

\* C30: a timed-out session is reported at every tick. A session that is past
\* its deadline without a message stays so after every event, unless the
\* event is the disconnected of the session, which removes its RemoteInfo,
\* or a decoded message of the session, which sets has_received; and every
\* sweep that finds it so raises one Timeout report and one disconnect
\* request for it, whether or not an earlier sweep has reported it.
C30_ReportedEveryTick ==
    [][\A s \in DOMAIN remote_infos :
          Expired(s) =>
              IF s \notin DOMAIN remote_infos'
              THEN event'.kind = "disconnected" /\ event'.session = s
              ELSE IF remote_infos'[s].has_received
              THEN DecodedEvent(event') /\ event'.session = s
              ELSE /\ remote_infos'[s].connected_at + 8 <= now'
                   /\ event'.kind = "notify" =>
                         /\ Len(Reports(calls', s, "Timeout")) = 1
                         /\ Len(DisconnectsOf(calls', s)) = 1
                   /\ (event.kind = "notify" /\ event'.kind = "notify") =>
                         /\ Reports(calls', s, "Timeout") = Reports(calls, s, "Timeout")
                         /\ DisconnectsOf(calls', s) = DisconnectsOf(calls, s)]_vars

\* C30 witness: a sweep later than the deadline of a session reports the
\* session, which is still in the map without a message
C30_Witness ==
    /\ event.kind = "notify"
    /\ \E s \in DOMAIN remote_infos :
          /\ ~remote_infos[s].has_received
          /\ remote_infos[s].connected_at + 8 < now
          /\ Len(Reports(calls, s, "Timeout")) = 1
          /\ Len(DisconnectsOf(calls, s)) = 1

\* the additions to the outbound addresses of the peer store in cs
OutboundAdds(cs) == CallsIn(cs, "add_outbound_addr")

\* C31: the remote address of a session is added to the outbound addresses
\* of the peer store for outbound sessions only: once at connected, banned or
\* not, and once at disconnected when the address is not banned at that
\* moment. No event of an inbound session, no disconnected of a banned
\* address and no other event adds an address.
C31_OutboundAdds ==
    [][LET s == event'.session
           one == <<Call("add_outbound_addr", s, SessionAddress(s))>>
       IN  IF event'.kind = "connected"
           THEN OutboundAdds(calls') = IF sessions'[s].ty = "outbound" THEN one ELSE <<>>
           ELSE IF event'.kind = "disconnected"
           THEN OutboundAdds(calls') =
                    IF sessions[s].ty = "outbound" /\ SessionAddress(s) \notin banned
                    THEN one ELSE <<>>
           ELSE OutboundAdds(calls') = <<>>]_vars

\* C31 witness: the outbound session, banned during its handshake, has
\* disconnected and its address was not added
C31_Witness ==
    /\ event.kind = "disconnected"
    /\ event.session = 1
    /\ SessionAddress(1) \in banned
    /\ OutboundAdds(calls) = <<>>

\* C31 witness of an outbound session that is not banned: its address is
\* added at its disconnected
C31_WitnessAdded ==
    /\ event.kind = "disconnected"
    /\ event.session = 1
    /\ SessionAddress(1) \notin banned
    /\ OutboundAdds(calls) = <<Call("add_outbound_addr", 1, SessionAddress(1))>>

\* C31 witness of the inbound session: neither its connected nor its
\* disconnected adds its address
C31_WitnessInbound ==
    /\ event.kind \in {"connected", "disconnected"}
    /\ event.session = 2
    /\ SessionAddress(2) \notin banned
    /\ OutboundAdds(calls) = <<>>

\* C31 witness of connected: a banned address is added when an outbound
\* session to it connects
C31_WitnessConnected ==
    /\ event.kind = "connected"
    /\ event.session = 1
    /\ SessionAddress(1) \in banned
    /\ OutboundAdds(calls) # <<>>

\* ev is a call of connected_peers on the context of a protocol
ConnectedPeersEvent(ev) == ev.kind = "context" /\ ev.arg.op = "connected_peers"

\* what connected_peers of the context of protocol id returns in this state
ListedPeers(id) == connected_peers(Machine, DefaultCKBProtocolContext(id)).result

\* the sessions of the registry on which protocol id is open: its last
\* adapter event for them was connected
OpenPeers(id) == {s \in DOMAIN peers : s \in handlers[id].sessions}

C32_WitnessInactive ==
    /\ ConnectedPeersEvent(event)
    /\ ~active
    /\ returned = {1, 2}

\* the received and disconnected calls of cs on the wrapped handlers
SessionCalls(cs) ==
    SelectSeq(cs, LAMBDA c : c.op \in {"handler.received", "handler.disconnected"})

\* C33: every received or disconnected call on a wrapped handler is for a
\* session of which the handler was told connected before and not yet
\* disconnected. It holds when the active flag only changes from active to
\* inactive; with a flag that returns to active it does not.
C33_KnownSessionsOnly ==
    [][\A i \in DOMAIN SessionCalls(calls') :
          LET c == SessionCalls(calls')[i]
          IN  c.session \in handlers[c.arg.proto_id].known]_vars

\* C33 witness: the network is inactive, the connected of a session was
\* not forwarded, and a message of the session was delivered to the adapter
\* and not forwarded
C33_Witness ==
    /\ ~active
    /\ event.kind = "CKBHandler::received"
    /\ event.session \in handlers[event.proto_id].sessions
    /\ event.session \notin handlers[event.proto_id].known
    /\ calls = <<>>

\* C33 witness of a forwarded message: its session is known to the handler
C33_WitnessForwarded ==
    /\ event.kind = "CKBHandler::received"
    /\ SessionCalls(calls) # <<>>
    /\ event.session \in handlers[event.proto_id].known

\* C33 witness of a flag that returned to active: a message is forwarded for
\* a session whose connected was skipped
C33_WitnessReactivated ==
    /\ active
    /\ event.kind = "CKBHandler::received"
    /\ SessionCalls(calls) # <<>>
    /\ event.session \notin handlers[event.proto_id].known

====
